---- MODULE Spec2Model ----
(***************************************************************************)
(* EcoAgent: the campus orchestrator (CampusAgentGraph), its agent pool,   *)
(* the what-if simulation engine and the comparison of two campus states.  *)
(*                                                                         *)
(* Units.  Energy (kW) and water (L/h) totals are reported rounded to two  *)
(* decimals, so they are integers counted in hundredths ("centi");         *)
(* percentages are reported rounded to one decimal, so they are integers   *)
(* counted in tenths of a percent.                                         *)
(*                                                                         *)
(* Objects.  Python dicts are shared by reference.  The room observation   *)
(* dicts of the observation source live in roomObjs (one object per room   *)
(* id); every data dict (current_data, limited_data, modified_data) holds  *)
(* the key order of its 'rooms' dict and refers to those same objects.     *)
(***************************************************************************)
EXTENDS Integers, Sequences, FiniteSets, TLC

VARIABLES
    campus_data,       \* CampusAgentGraph.campus_data
    room_agents,       \* CampusAgentGraph.room_agents: room id -> RoomAgent
    building_agents,   \* CampusAgentGraph.building_agents: building id -> BuildingAgent
    roomObjs,          \* the room observation dicts of the observation source
    oracle_failures,   \* how many more calls of the reasoning service will fail
    pc,                \* where each request handler stands
    req,               \* the arguments of each request
    current_data,      \* the current_data argument of each request
    limited_data,      \* run_what_if_simulation: local limited_data
    modified_data,     \* run_what_if_simulation: local modified_data
    tasks,             \* _run_room_agents: the scheduled room tasks and their results
    simulated_state,   \* run_what_if_simulation: local simulated_state
    baseline_state,    \* run_what_if_simulation: local baseline_state
    result,            \* what the handler returned
    called,            \* history: roomObjs as it was when the handler was called
    budget_log,        \* history: what _apply_budget_constraints saw and chose
    initial_states,    \* history: the initial states built for each run
    pool_log           \* history: the last _ensure_agents_for_rooms call

vars == <<campus_data, room_agents, building_agents, roomObjs, oracle_failures,
          pc, req, current_data, limited_data, modified_data, tasks,
          simulated_state, baseline_state, result, called, budget_log,
          initial_states, pool_log>>

----------------------------------------------------------------------------
(* Bounds of the model *)

\* Room occupancies of the observation source range over 0..MaxOcc.
MaxOcc == 1
\* At most this many calls of the reasoning service fail in one behaviour.
MaxFailures == 1
\* Campus energy totals given to the comparison: 0.0, 0.1, ... MaxEnergyTenths / 10 kW
MaxEnergyTenths == 16
\* Campus water totals given to the comparison: 0, 10, ... 10 * MaxWaterSteps L/h
MaxWaterSteps == 3
\* A reply of the reasoning service holds up to this many lines that read as
\* an anomaly
MaxReplyLines == 4
\* and up to this many lines that read as a recommendation
MaxActionLines == 1

----------------------------------------------------------------------------
(* Generic helpers *)

Range(s) == {s[i] : i \in 1..Len(s)}

Min(a, b) == IF a < b THEN a ELSE b

Max(a, b) == IF a > b THEN a ELSE b

\* Python s[:n] for n >= 0
Take(s, n) == SubSeq(s, 1, Min(n, Len(s)))

\* the orders in which a set can be iterated
Orderings(S) ==
    {s \in [1..Cardinality(S) -> S] : \A i, j \in 1..Cardinality(S) : i # j => s[i] # s[j]}

RECURSIVE SumOver(_, _)
SumOver(f, S) ==
    IF S = {} THEN 0
    ELSE LET x == CHOOSE y \in S : TRUE IN f[x] + SumOver(f, S \ {x})

\* Python None for an optional argument: <<>>; a given value k: <<k>>
None == <<>>

Unset == [unset |-> TRUE]

----------------------------------------------------------------------------
(* The campus and the observation source *)

Procs == {"p1"}

RoomIds == {"R1", "R2", "R3"}

BuildingIds == {"B1", "B2"}

\* key order of the 'rooms' dict of the observation source
SourceOrder == <<"R1", "R2", "R3">>

RoomConfig ==
    [R1 |-> [type |-> "classroom", building_id |-> "B1", capacity |-> 30],
     R2 |-> [type |-> "lab",       building_id |-> "B2", capacity |-> 20],
     R3 |-> [type |-> "bathroom",  building_id |-> "B1", capacity |-> 4]]

\* the campus structures the data service can hand to set_campus_data: every
\* room and building configured, room R3 without a configuration, or building
\* B2 without one
CampusChoices ==
    {[rooms |-> [r \in S |-> RoomConfig[r]], buildings |-> BuildingIds] :
        S \in {RoomIds, {"R1", "R2"}}}
    \cup {[rooms |-> RoomConfig, buildings |-> {"B1"}]}

\* what a room observation holds besides its occupancy
Condition ==
    [R1 |-> [building_id |-> "B1", occupancy_level |-> "low",
             temperature_comfort |-> "too_hot",
             equipment_running |-> <<"lights", "projector">>, water_running |-> FALSE],
     R2 |-> [building_id |-> "B2", occupancy_level |-> "high",
             temperature_comfort |-> "too_cold",
             equipment_running |-> <<"hood">>, water_running |-> TRUE],
     R3 |-> [building_id |-> "B1", occupancy_level |-> "medium",
             temperature_comfort |-> "too_hot",
             equipment_running |-> <<>>, water_running |-> TRUE]]

Observation(r, occ) ==
    [building_id |-> Condition[r].building_id,
     occupancy |-> occ,
     occupancy_level |-> Condition[r].occupancy_level,
     temperature_comfort |-> Condition[r].temperature_comfort,
     equipment_running |-> Condition[r].equipment_running,
     water_running |-> Condition[r].water_running]

Sources ==
    {[r \in RoomIds |-> Observation(r, occ[r])] : occ \in [RoomIds -> 0..MaxOcc]}

ScenarioTypes == {"close_building", "reduce_hvac", "shift_schedule", "None"}

Scenarios ==
    {[type |-> "close_building", building_id |-> b] : b \in BuildingIds}
    \cup {[type |-> t, building_id |-> "None"] :
             t \in {"reduce_hvac", "shift_schedule", "None"}}

BudgetLevels == {"low", "medium"}

NumRoomsChoices == {None} \cup {<<k>> : k \in 0..Len(SourceOrder)}

NumBuildingsChoices == {None} \cup {<<n>> : n \in 0..Cardinality(BuildingIds)}

----------------------------------------------------------------------------
(* RoomAgent: the deterministic resource estimates (centi-kW, centi-L/h) *)

\* _calculate_energy were a piece of equipment to draw 1 kW
CalculateEnergyEquipmentOneKw(room_type, occupancy, equipment) ==
    LET base_energy ==
            CASE room_type = "classroom" -> 200
              [] room_type = "lab"       -> 800
              [] room_type = "library"   -> 300
              [] room_type = "dorm"      -> 150
              [] room_type = "bathroom"  -> 100
              [] room_type = "cafeteria" -> 1500
              [] OTHER                   -> 200
    IN base_energy + Len(equipment) * 100 + occupancy * 10

\* RoomAgent._calculate_energy: base load + 0.5 per equipment + 0.1 per occupant
CalculateEnergy(room_type, occupancy, equipment) ==
    LET base_energy ==
            CASE room_type = "classroom" -> 200
              [] room_type = "lab"       -> 800
              [] room_type = "library"   -> 300
              [] room_type = "dorm"      -> 150
              [] room_type = "bathroom"  -> 100
              [] room_type = "cafeteria" -> 1500
              [] OTHER                   -> 200
    IN base_energy + Len(equipment) * 50 + occupancy * 10

\* RoomAgent._calculate_water
CalculateWater(room_type, water_running) ==
    IF ~water_running THEN 0
    ELSE CASE room_type = "bathroom"  -> 12000
           [] room_type = "cafeteria" -> 20000
           [] room_type = "lab"       -> 5000
           [] room_type = "classroom" -> 1000
           [] OTHER                   -> 0

\* RoomAgent.__init__
NewRoomAgent(room_config) == [room_config |-> room_config, budget_level |-> "medium"]

\* BuildingAgent.__init__
NewBuildingAgent == [room_agents |-> {}]

\* RoomAgent._calculate_co2 were the crowding counted from a full room down
CalculateCo2FromFull(occupancy, capacity) ==
    400 + occupancy * 100 + ((occupancy - Max(capacity, 1)) * 200) \div Max(capacity, 1)

\* RoomAgent._calculate_co2: int() of 400 + 100 per person + 200 * crowding
CalculateCo2(occupancy, capacity) ==
    400 + occupancy * 100 + (occupancy * 200) \div Max(capacity, 1)

\* RoomAgent._determine_thermal_load
DetermineThermalLoad(comfort) ==
    IF comfort = "too_cold" THEN "heating"
    ELSE IF comfort = "too_hot" THEN "cooling"
    ELSE "neutral"

\* RoomAgent._find_peak_time
FindPeakTime(room_type) ==
    CASE room_type = "classroom" -> "10:00-11:00"
      [] room_type = "lab"       -> "14:00-16:00"
      [] room_type = "library"   -> "19:00-21:00"
      [] room_type = "dorm"      -> "21:00-23:00"
      [] room_type = "bathroom"  -> "08:00-09:00"
      [] room_type = "cafeteria" -> "12:00-13:00"
      [] OTHER                   -> "12:00-13:00"

\* anomalies[:3] of _extract_anomalies
MaxAnomalies == 3

\* recommendations[:5] of _parse_recommendations
MaxRecommendations == 5

\* n lines of a reply of the reasoning service
ReplyLines(n) == [i \in 1..n |-> "reply_line"]

\* RoomAgent._extract_anomalies on a reply with n lines that hold a keyword
ExtractAnomalies(n) == Take(ReplyLines(n), MaxAnomalies)

\* RoomAgent._parse_recommendations on a reply with n lines that hold a marker
ParseRecommendations(n) == Take(ReplyLines(n), MaxRecommendations)

\* _calculate_savings_potential were an energy of 2.0 kW to count as high
CalculateSavingsPotentialFromTwoKw(state) ==
    LET by_anomalies == Len(state.anomalies) * 5
        by_comfort == IF state.temperature_comfort # "comfortable" THEN 10 ELSE 0
        by_occupancy ==
            IF 10 * state.current_occupancy < 3 * Max(state.capacity, 1)
               /\ state.estimated_energy_kw >= 200
            THEN 15 ELSE 0
    IN Min(by_anomalies + by_comfort + by_occupancy, 40)

\* RoomAgent._calculate_savings_potential, in percent
CalculateSavingsPotential(state) ==
    LET by_anomalies == Len(state.anomalies) * 5
        by_comfort == IF state.temperature_comfort # "comfortable" THEN 10 ELSE 0
        by_occupancy ==
            IF 10 * state.current_occupancy < 3 * Max(state.capacity, 1)
               /\ state.estimated_energy_kw > 200
            THEN 15 ELSE 0
    IN Min(by_anomalies + by_comfort + by_occupancy, 40)

\* workflow.set_entry_point
EntryPoint == "analyze_observations"

\* the graph's edges were infer_resources to lead to generate_recommendations
NextNodeSkippingPredict(node) ==
    CASE node = "analyze_observations"     -> "infer_resources"
      [] node = "infer_resources"          -> "generate_recommendations"
      [] node = "predict_demand"           -> "generate_recommendations"
      [] node = "generate_recommendations" -> "END"

\* workflow.add_edge: the node that follows node
NextNode(node) ==
    CASE node = "analyze_observations"     -> "infer_resources"
      [] node = "infer_resources"          -> "predict_demand"
      [] node = "predict_demand"           -> "generate_recommendations"
      [] node = "generate_recommendations" -> "END"

\* the nodes that call the reasoning service were the depth not to matter
CallsOracleAtEveryDepth(agent, node) ==
    node \in {"analyze_observations", "infer_resources", "predict_demand",
              "generate_recommendations"}

\* the nodes that call the reasoning service, for an agent of this budget level
CallsOracle(agent, node) ==
    \/ node \in {"infer_resources", "predict_demand"}
    \/ node \in {"analyze_observations", "generate_recommendations"}
        /\ agent.budget_level # "low"

\* the prompt a node sends to the reasoning service and the reply it gets
Exchange(node) ==
    <<[node |-> node, role |-> "request"], [node |-> node, role |-> "reply"]>>

\* _analyze_observations were two pieces of running equipment enough for
\* the low-occupancy anomaly
AnalyzeObservationsTwoRunning(agent, state, anomaly_lines) ==
    IF agent.budget_level = "low"
    THEN [state EXCEPT !.anomalies =
             (IF state.temperature_comfort # "comfortable"
              THEN <<"temperature_discomfort">> ELSE <<>>)
             \o (IF 5 * state.current_occupancy < state.capacity
                    /\ Len(state.equipment_running) >= 2
                 THEN <<"low_occupancy_equipment">> ELSE <<>>)]
    ELSE [state EXCEPT !.anomalies = ExtractAnomalies(anomaly_lines),
                       !.messages = state.messages \o Exchange("analyze_observations")]

\* RoomAgent._analyze_observations; anomaly_lines is what the reply holds
AnalyzeObservations(agent, state, anomaly_lines) ==
    IF agent.budget_level = "low"
    THEN [state EXCEPT !.anomalies =
             (IF state.temperature_comfort # "comfortable"
              THEN <<"temperature_discomfort">> ELSE <<>>)
             \o (IF 5 * state.current_occupancy < state.capacity
                    /\ Len(state.equipment_running) > 2
                 THEN <<"low_occupancy_equipment">> ELSE <<>>)]
    ELSE [state EXCEPT !.anomalies = ExtractAnomalies(anomaly_lines),
                       !.messages = state.messages \o Exchange("analyze_observations")]

\* _infer_resources were the estimates refined by the reply: 0.1 kW more for
\* every line of it
InferResourcesRefined(state, refined_lines) ==
    [state EXCEPT
        !.estimated_energy_kw =
            CalculateEnergy(state.room_type, state.current_occupancy, state.equipment_running)
            + 10 * refined_lines,
        !.estimated_water_lph = CalculateWater(state.room_type, state.water_running),
        !.estimated_co2_ppm = CalculateCo2(state.current_occupancy, state.capacity),
        !.thermal_load = DetermineThermalLoad(state.temperature_comfort),
        !.messages = state.messages \o Exchange("infer_resources")]

\* RoomAgent._infer_resources; refined_lines is what the reply of the
\* reasoning service holds: the reply is appended to the messages and read
\* nowhere
InferResources(state, refined_lines) ==
    [state EXCEPT
        !.estimated_energy_kw =
            CalculateEnergy(state.room_type, state.current_occupancy, state.equipment_running),
        !.estimated_water_lph = CalculateWater(state.room_type, state.water_running),
        !.estimated_co2_ppm = CalculateCo2(state.current_occupancy, state.capacity),
        !.thermal_load = DetermineThermalLoad(state.temperature_comfort),
        !.messages = state.messages \o Exchange("infer_resources")]

\* _predict_occupancy_heuristic were the peak prediction not capped
PredictOccupancyHeuristicUncapped(state, peak) ==
    IF peak
    THEN (11 * state.current_occupancy) \div 10
    ELSE Max((8 * state.current_occupancy) \div 10, 0)

\* RoomAgent._predict_occupancy_heuristic; peak says whether the hour is
\* from 9 to before 17
PredictOccupancyHeuristic(state, peak) ==
    IF peak
    THEN Min((11 * state.current_occupancy) \div 10, state.capacity)
    ELSE Max((8 * state.current_occupancy) \div 10, 0)

\* RoomAgent._get_max_energy, in centi-kW
GetMaxEnergy(room_type) ==
    CASE room_type = "classroom" -> 500
      [] room_type = "lab"       -> 1500
      [] room_type = "library"   -> 600
      [] room_type = "dorm"      -> 300
      [] room_type = "bathroom"  -> 200
      [] room_type = "cafeteria" -> 3000
      [] OTHER                   -> 500

\* predicted_occupancy / state['capacity'] raises ZeroDivisionError
PredictDemandRaises(state) == state.capacity = 0

\* RoomAgent._predict_demand on a room of a capacity other than 0; the
\* predicted energy, predicted_occupancy / capacity * max energy, is kept as
\* the fraction num / den of centi-kW.  predicted_lines is what the reply of
\* the reasoning service holds: it is appended to the messages and read nowhere
PredictDemand(state, peak, predicted_lines) ==
    LET predicted_occupancy == PredictOccupancyHeuristic(state, peak)
    IN [state EXCEPT
           !.predicted_occupancy_1h = predicted_occupancy,
           !.predicted_energy_1h =
               [num |-> predicted_occupancy * GetMaxEnergy(state.room_type),
                den |-> state.capacity],
           !.predicted_peak_time = FindPeakTime(state.room_type),
           !.messages = state.messages \o Exchange("predict_demand")]

\* _generate_recommendations were the leak check made in every type of room
GenerateRecommendationsLeakAnywhere(agent, state, action_lines) ==
    LET by_rule ==
            (IF state.temperature_comfort # "comfortable" THEN <<"adjust_hvac">> ELSE <<>>)
            \o (IF 10 * state.current_occupancy < 3 * Max(state.capacity, 1)
                   /\ state.estimated_energy_kw > 200
                THEN <<"reduce_lighting">> ELSE <<>>)
            \o (IF state.water_running THEN <<"check_water">> ELSE <<>>)
        recommendations ==
            IF agent.budget_level = "low"
            THEN (IF by_rule = <<>> THEN <<"no_action_needed">> ELSE by_rule)
            ELSE ParseRecommendations(action_lines)
    IN [state EXCEPT !.recommendations = recommendations,
                     !.savings_potential = CalculateSavingsPotential(state),
                     !.messages = IF agent.budget_level = "low" THEN state.messages
                                  ELSE state.messages
                                       \o Exchange("generate_recommendations")]

\* RoomAgent._generate_recommendations; action_lines is what the reply holds
GenerateRecommendations(agent, state, action_lines) ==
    LET by_rule ==
            (IF state.temperature_comfort # "comfortable" THEN <<"adjust_hvac">> ELSE <<>>)
            \o (IF 10 * state.current_occupancy < 3 * Max(state.capacity, 1)
                   /\ state.estimated_energy_kw > 200
                THEN <<"reduce_lighting">> ELSE <<>>)
            \o (IF state.water_running /\ state.room_type \notin {"bathroom", "cafeteria"}
                THEN <<"check_water">> ELSE <<>>)
        recommendations ==
            IF agent.budget_level = "low"
            THEN (IF by_rule = <<>> THEN <<"no_action_needed">> ELSE by_rule)
            ELSE ParseRecommendations(action_lines)
    IN [state EXCEPT !.recommendations = recommendations,
                     !.savings_potential = CalculateSavingsPotential(state),
                     !.messages = IF agent.budget_level = "low" THEN state.messages
                                  ELSE state.messages
                                       \o Exchange("generate_recommendations")]

\* what _run_single_room_agent would return on an exception were it to
\* return the state the pipeline had reached
ResultOnErrorPartial(task) == task.state

\* _run_single_room_agent, except branch: return initial_state
ResultOnError(task) == task.initial

----------------------------------------------------------------------------
(* CampusAgentGraph._ensure_agents_for_rooms *)

\* _ensure_agents_for_rooms were it to keep every tracked room
EnsureAgentsKeepingAll(ra, ba, campus, room_ids) ==
    LET created == {r \in Range(room_ids) : r \notin DOMAIN ra /\ r \in DOMAIN campus.rooms}
        new_ra == [r \in DOMAIN ra \cup created |->
                      IF r \in DOMAIN ra THEN ra[r] ELSE NewRoomAgent(campus.rooms[r])]
        needed == {campus.rooms[r].building_id : r \in Range(room_ids) \cap DOMAIN campus.rooms}
    IN [room_agents |-> new_ra,
        building_agents |->
            [b \in needed \cap campus.buildings |->
                [room_agents |-> {r \in DOMAIN new_ra : campus.rooms[r].building_id = b}]],
        log |-> [reconciled |-> TRUE, room_ids |-> Range(room_ids),
                 evicted |-> {}, created |-> created]]

\* _ensure_agents_for_rooms were it to keep every tracked building
EnsureAgentsKeepingBuildings(ra, ba, campus, room_ids) ==
    LET rooms_to_keep == Range(room_ids)
        kept == DOMAIN ra \cap rooms_to_keep
        created == {r \in rooms_to_keep : r \notin kept /\ r \in DOMAIN campus.rooms}
        new_ra == [r \in kept \cup created |->
                      IF r \in kept THEN ra[r] ELSE NewRoomAgent(campus.rooms[r])]
        buildings_needed ==
            {campus.rooms[r].building_id : r \in rooms_to_keep \cap DOMAIN campus.rooms}
        kept_b == DOMAIN ba
        created_b == {b \in buildings_needed : b \notin kept_b /\ b \in campus.buildings}
        registered(b) ==
            {r \in rooms_to_keep \cap DOMAIN new_ra :
                r \in DOMAIN campus.rooms /\ campus.rooms[r].building_id = b}
        new_ba == [b \in kept_b \cup created_b |->
                      [room_agents |->
                          (IF b \in kept_b THEN ba[b].room_agents
                           ELSE NewBuildingAgent.room_agents) \cup registered(b)]]
    IN [room_agents |-> new_ra,
        building_agents |-> new_ba,
        log |-> [reconciled |-> TRUE, room_ids |-> rooms_to_keep,
                 evicted |-> DOMAIN ra \ kept, created |-> created]]

\* _ensure_agents_for_rooms were it to build a new agent for every requested
\* room, tracked or not
EnsureAgentsRecreating(ra, ba, campus, room_ids) ==
    LET rooms_to_keep == Range(room_ids)
        kept == {}
        created == {r \in rooms_to_keep : r \notin kept /\ r \in DOMAIN campus.rooms}
        new_ra == [r \in kept \cup created |->
                      IF r \in kept THEN ra[r] ELSE NewRoomAgent(campus.rooms[r])]
        buildings_needed ==
            {campus.rooms[r].building_id : r \in rooms_to_keep \cap DOMAIN campus.rooms}
        kept_b == DOMAIN ba \cap buildings_needed
        created_b == {b \in buildings_needed : b \notin kept_b /\ b \in campus.buildings}
        registered(b) ==
            {r \in rooms_to_keep \cap DOMAIN new_ra :
                r \in DOMAIN campus.rooms /\ campus.rooms[r].building_id = b}
        new_ba == [b \in kept_b \cup created_b |->
                      [room_agents |->
                          (IF b \in kept_b THEN ba[b].room_agents
                           ELSE NewBuildingAgent.room_agents) \cup registered(b)]]
    IN [room_agents |-> new_ra,
        building_agents |-> new_ba,
        log |-> [reconciled |-> TRUE, room_ids |-> rooms_to_keep,
                 evicted |-> DOMAIN ra \ kept, created |-> created]]

\* _ensure_agents_for_rooms were it to give a requested room that has no
\* configuration an agent of the default configuration
EnsureAgentsDefaultConfig(ra, ba, campus, room_ids) ==
    LET rooms_to_keep == Range(room_ids)
        kept == DOMAIN ra \cap rooms_to_keep
        created == {r \in rooms_to_keep : r \notin kept}
        new_ra == [r \in kept \cup created |->
                      IF r \in kept THEN ra[r]
                      ELSE IF r \in DOMAIN campus.rooms THEN NewRoomAgent(campus.rooms[r])
                      ELSE NewRoomAgent([type |-> "classroom", building_id |-> "unknown",
                                         capacity |-> 30])]
        buildings_needed ==
            {campus.rooms[r].building_id : r \in rooms_to_keep \cap DOMAIN campus.rooms}
        kept_b == DOMAIN ba \cap buildings_needed
        created_b == {b \in buildings_needed : b \notin kept_b /\ b \in campus.buildings}
        registered(b) ==
            {r \in rooms_to_keep \cap DOMAIN new_ra :
                r \in DOMAIN campus.rooms /\ campus.rooms[r].building_id = b}
        new_ba == [b \in kept_b \cup created_b |->
                      [room_agents |->
                          (IF b \in kept_b THEN ba[b].room_agents
                           ELSE NewBuildingAgent.room_agents) \cup registered(b)]]
    IN [room_agents |-> new_ra,
        building_agents |-> new_ba,
        log |-> [reconciled |-> TRUE, room_ids |-> rooms_to_keep,
                 evicted |-> DOMAIN ra \ kept, created |-> created]]

\* The pool after reconciling it with room_ids, and what the call did.
EnsureAgentsForRooms(ra, ba, campus, room_ids) ==
    LET rooms_to_keep == Range(room_ids)
        kept == DOMAIN ra \cap rooms_to_keep
        created == {r \in rooms_to_keep : r \notin kept /\ r \in DOMAIN campus.rooms}
        new_ra == [r \in kept \cup created |->
                      IF r \in kept THEN ra[r] ELSE NewRoomAgent(campus.rooms[r])]
        buildings_needed ==
            {campus.rooms[r].building_id : r \in rooms_to_keep \cap DOMAIN campus.rooms}
        kept_b == DOMAIN ba \cap buildings_needed
        created_b == {b \in buildings_needed : b \notin kept_b /\ b \in campus.buildings}
        registered(b) ==
            {r \in rooms_to_keep \cap DOMAIN new_ra :
                r \in DOMAIN campus.rooms /\ campus.rooms[r].building_id = b}
        new_ba == [b \in kept_b \cup created_b |->
                      [room_agents |->
                          (IF b \in kept_b THEN ba[b].room_agents
                           ELSE NewBuildingAgent.room_agents) \cup registered(b)]]
    IN [room_agents |-> new_ra,
        building_agents |-> new_ba,
        log |-> [reconciled |-> TRUE, room_ids |-> rooms_to_keep,
                 evicted |-> DOMAIN ra \ kept, created |-> created]]

\* CampusAgentGraph._build_room_initial_state
BuildRoomInitialState(agent, room_id, observations) ==
    [room_id |-> room_id,
     room_type |-> agent.room_config.type,
     building_id |-> agent.room_config.building_id,
     capacity |-> agent.room_config.capacity,
     current_occupancy |-> observations.occupancy,
     occupancy_level |-> observations.occupancy_level,
     temperature_comfort |-> observations.temperature_comfort,
     equipment_running |-> observations.equipment_running,
     water_running |-> observations.water_running,
     estimated_energy_kw |-> 0,
     estimated_water_lph |-> 0,
     estimated_co2_ppm |-> 400,
     thermal_load |-> "neutral",
     predicted_occupancy_1h |-> 0,
     predicted_energy_1h |-> [num |-> 0, den |-> 1],
     predicted_peak_time |-> "",
     recommendations |-> <<>>,
     anomalies |-> <<>>,
     savings_potential |-> 0,
     messages |-> <<>>]

\* run_campus_analysis up to the await of the room tasks: reconcile the pool
\* with the rooms of the data, set the budget level on every tracked agent and
\* build the initial state of every tracked room from the room objects as
\* they are now.
AnalysisPrefix(ra, ba, campus, objs, data) ==
    LET pool == EnsureAgentsForRooms(ra, ba, campus, data.rooms)
        budget_level == IF data.parameters = "absent" THEN "medium" ELSE data.parameters
        agents == [r \in DOMAIN pool.room_agents |->
                      [pool.room_agents[r] EXCEPT !.budget_level = budget_level]]
        states == [r \in DOMAIN agents |-> BuildRoomInitialState(agents[r], r, objs[r])]
    IN [room_agents |-> agents,
        building_agents |-> pool.building_agents,
        log |-> pool.log,
        initial |-> states,
        tasks |-> [r \in DOMAIN agents |->
                      [status |-> "pending", state |-> states[r],
                       initial |-> states[r], node |-> EntryPoint, log |-> <<>>]]]

\* RoomAgent.run_async on a reachable reasoning service: the resource
\* estimates of the result, from which the campus summary is computed
PipelineResult(state) ==
    [state EXCEPT
        !.estimated_energy_kw =
            CalculateEnergy(state.room_type, state.current_occupancy, state.equipment_running),
        !.estimated_water_lph = CalculateWater(state.room_type, state.water_running)]

----------------------------------------------------------------------------
(* Aggregation: BuildingAgent.aggregate_building_state and
   CampusAgentGraph._run_building_agents, _generate_campus_insights *)

\* _run_building_agents were it to analyse every tracked building
RunBuildingAgentsUnguarded(ba, room_states) ==
    LET of(b) == {r \in DOMAIN room_states : room_states[r].building_id = b}
        energy == [r \in DOMAIN room_states |-> room_states[r].estimated_energy_kw]
        water == [r \in DOMAIN room_states |-> room_states[r].estimated_water_lph]
        occupancy == [r \in DOMAIN room_states |-> room_states[r].current_occupancy]
        capacity == [r \in DOMAIN room_states |-> room_states[r].capacity]
    IN [b \in DOMAIN ba |->
           [total_rooms |-> Cardinality(of(b)),
            total_energy_kw |-> SumOver(energy, of(b)),
            total_water_lph |-> SumOver(water, of(b)),
            total_occupancy |-> SumOver(occupancy, of(b)),
            total_capacity |-> SumOver(capacity, of(b)),
            building_recommendations |-> ReplyLines(1)]]

\* the building states of the tracked buildings that have a room state; each
\* is the result of one analyze_building, which aggregates the room states
\* and asks the reasoning service for the building's recommendations
RunBuildingAgents(ba, room_states) ==
    LET of(b) == {r \in DOMAIN room_states : room_states[r].building_id = b}
        energy == [r \in DOMAIN room_states |-> room_states[r].estimated_energy_kw]
        water == [r \in DOMAIN room_states |-> room_states[r].estimated_water_lph]
        occupancy == [r \in DOMAIN room_states |-> room_states[r].current_occupancy]
        capacity == [r \in DOMAIN room_states |-> room_states[r].capacity]
    IN [b \in {x \in DOMAIN ba : of(x) # {}} |->
           [total_rooms |-> Cardinality(of(b)),
            total_energy_kw |-> SumOver(energy, of(b)),
            total_water_lph |-> SumOver(water, of(b)),
            total_occupancy |-> SumOver(occupancy, of(b)),
            total_capacity |-> SumOver(capacity, of(b)),
            building_recommendations |-> ReplyLines(1)]]

\* the campus state; of it the what-if engine reads the summary
GenerateCampusInsights(building_states) ==
    LET B == DOMAIN building_states
        col(f) == [b \in B |-> building_states[b][f]]
    IN [building_states |-> building_states,
        summary |->
           [total_buildings |-> Cardinality(B),
            total_rooms |-> SumOver(col("total_rooms"), B),
            total_energy_kw |-> SumOver(col("total_energy_kw"), B),
            total_water_lph |-> SumOver(col("total_water_lph"), B),
            total_occupancy |-> SumOver(col("total_occupancy"), B),
            total_capacity |-> SumOver(col("total_capacity"), B)]]

\* _run_room_agents were it to leave out the rooms whose pipeline raised
GatherResultsCompleted(tsk) ==
    [id \in {tsk[r].state.room_id : r \in {x \in DOMAIN tsk : tsk[x].status = "done"}} |->
        tsk[CHOOSE r \in DOMAIN tsk : tsk[r].state.room_id = id].state]

\* _run_room_agents after the gather: {result['room_id']: result for result in results}
GatherResults(tsk) ==
    [id \in {tsk[r].state.room_id : r \in DOMAIN tsk} |->
        tsk[CHOOSE r \in DOMAIN tsk : tsk[r].state.room_id = id].state]

\* run_campus_analysis after the await of the room tasks
AnalysisSuffix(ba, tsk) ==
    GenerateCampusInsights(RunBuildingAgents(ba, GatherResults(tsk)))


----------------------------------------------------------------------------
(* The what-if engine: CampusAgentGraph._apply_budget_constraints,
   _apply_scenario, _compare_states *)

\* dict.copy(): a new dict with the same keys, holding the same room objects
ShallowCopy(data) == data

\* x[1].get('occupancy', 0) of sorted()'s key
OccupancyKey(objs, r) == objs[r].occupancy

\* sorted() were it not stable: x goes before the elements of equal key
RECURSIVE InsertBeforeEqual(_, _, _)
InsertBeforeEqual(objs, sorted, x) ==
    IF sorted = <<>> THEN <<x>>
    ELSE IF OccupancyKey(objs, Head(sorted)) > OccupancyKey(objs, x)
         THEN <<Head(sorted)>> \o InsertBeforeEqual(objs, Tail(sorted), x)
         ELSE <<x>> \o sorted

\* One step of sorted(..., reverse=True): x goes after every element whose key
\* is at least its own, so equal keys keep their original order.
RECURSIVE InsertDescending(_, _, _)
InsertDescending(objs, sorted, x) ==
    IF sorted = <<>> THEN <<x>>
    ELSE IF OccupancyKey(objs, Head(sorted)) >= OccupancyKey(objs, x)
         THEN <<Head(sorted)>> \o InsertDescending(objs, Tail(sorted), x)
         ELSE <<x>> \o sorted

\* sorted(rooms.items(), key=occupancy, reverse=True), as the list of its keys
RECURSIVE SortedRooms(_, _)
SortedRooms(objs, rooms) ==
    IF rooms = <<>> THEN <<>>
    ELSE InsertDescending(objs, SortedRooms(objs, SubSeq(rooms, 1, Len(rooms) - 1)),
                          rooms[Len(rooms)])

\* the building ids of the rooms of a 'rooms' dict
BuildingsOf(objs, rooms) == {objs[r].building_id : r \in Range(rooms)}

\* _apply_budget_constraints.  available_buildings is list(set(...)): the
\* building ids in the iteration order of a set, which is any order.
ApplyBudgetConstraints(objs, data, num_rooms, num_buildings, budget_level, available_buildings) ==
    LET limited == ShallowCopy(data)
        rooms0 == limited.rooms
        selected_buildings ==
            IF num_buildings # None THEN Take(available_buildings, num_buildings[1])
            ELSE available_buildings
        in_selected(r) == objs[r].building_id \in Range(selected_buildings)
        rooms1 == IF num_buildings # None THEN SelectSeq(rooms0, in_selected) ELSE rooms0
        rooms2 == IF num_rooms # None /\ Len(rooms1) > num_rooms[1]
                  THEN Take(SortedRooms(objs, rooms1), num_rooms[1])
                  ELSE rooms1
    IN IF num_rooms = None /\ num_buildings = None
       THEN [data |-> limited,
             log |-> [available_buildings |-> available_buildings,
                      selected_buildings |-> available_buildings,
                      prefiltered |-> rooms0]]
       ELSE [data |-> [limited EXCEPT !.rooms = rooms2, !.parameters = budget_level],
             log |-> [available_buildings |-> available_buildings,
                      selected_buildings |-> selected_buildings,
                      prefiltered |-> rooms1]]

\* _apply_scenario were close_building to leave out the test of the building
ApplyScenarioEveryBuilding(objs, data, scenario) ==
    LET keys == Range(data.rooms)
    IN IF scenario.type = "close_building"
       THEN [r \in DOMAIN objs |->
                IF r \in keys
                THEN [objs[r] EXCEPT !.occupancy = 0, !.equipment_running = <<>>]
                ELSE objs[r]]
       ELSE IF scenario.type = "reduce_hvac"
       THEN [r \in DOMAIN objs |->
                IF r \in keys /\ objs[r].occupancy_level = "low"
                THEN [objs[r] EXCEPT !.temperature_comfort = "comfortable"]
                ELSE objs[r]]
       ELSE objs

\* _apply_scenario were reduce_hvac to spare only the rooms of high occupancy
ApplyScenarioNotHigh(objs, data, scenario) ==
    LET keys == Range(data.rooms)
    IN IF scenario.type = "close_building"
       THEN [r \in DOMAIN objs |->
                IF r \in keys /\ objs[r].building_id = scenario.building_id
                THEN [objs[r] EXCEPT !.occupancy = 0, !.equipment_running = <<>>]
                ELSE objs[r]]
       ELSE IF scenario.type = "reduce_hvac"
       THEN [r \in DOMAIN objs |->
                IF r \in keys /\ objs[r].occupancy_level # "high"
                THEN [objs[r] EXCEPT !.temperature_comfort = "comfortable"]
                ELSE objs[r]]
       ELSE objs

\* _apply_scenario were its second branch an else: every type but
\* close_building handled as reduce_hvac
ApplyScenarioElseHvac(objs, data, scenario) ==
    LET keys == Range(data.rooms)
    IN IF scenario.type = "close_building"
       THEN [r \in DOMAIN objs |->
                IF r \in keys /\ objs[r].building_id = scenario.building_id
                THEN [objs[r] EXCEPT !.occupancy = 0, !.equipment_running = <<>>]
                ELSE objs[r]]
       ELSE [r \in DOMAIN objs |->
                IF r \in keys /\ objs[r].occupancy_level = "low"
                THEN [objs[r] EXCEPT !.temperature_comfort = "comfortable"]
                ELSE objs[r]]

\* _apply_scenario: the room objects after the call.  modified = data.copy()
\* holds the room objects of data, and the loops assign into those objects.
ApplyScenario(objs, data, scenario) ==
    LET modified == ShallowCopy(data)
        keys == Range(modified.rooms)
    IN IF scenario.type = "close_building"
       THEN [r \in DOMAIN objs |->
                IF r \in keys /\ objs[r].building_id = scenario.building_id
                THEN [objs[r] EXCEPT !.occupancy = 0, !.equipment_running = <<>>]
                ELSE objs[r]]
       ELSE IF scenario.type = "reduce_hvac"
       THEN [r \in DOMAIN objs |->
                IF r \in keys /\ objs[r].occupancy_level = "low"
                THEN [objs[r] EXCEPT !.temperature_comfort = "comfortable"]
                ELSE objs[r]]
       ELSE objs


\* round(num / den) for den > 0.  Where num / den lies exactly halfway between
\* two integers the binary floating-point value that is rounded lies a little
\* to either side of it: tie_up says to which.
RoundDiv(num, den, tie_up) ==
    LET floor == num \div den
        rest == num % den
    IN IF 2 * rest < den THEN floor
       ELSE IF 2 * rest > den THEN floor + 1
       ELSE IF tie_up THEN floor + 1 ELSE floor

\* the percentage were the floor of the denominator 0.01 instead of 1
SavingsPctFloorOneHundredth(savings, baseline, tie_up) ==
    RoundDiv(1000 * savings, Max(baseline, 1), tie_up)

\* round((savings / max(baseline, 1)) * 100, 1), in tenths of a percent, from
\* a saving and a baseline in hundredths
SavingsPct(savings, baseline, tie_up) ==
    RoundDiv(1000 * savings, Max(baseline, 100), tie_up)

\* round(energy_savings * 0.12, 2), in hundredths
CostSavings(energy_savings) == RoundDiv(12 * energy_savings, 100, FALSE)

\* _compare_states
CompareStates(baseline, simulated, ties) ==
    LET baseline_energy == baseline.summary.total_energy_kw
        simulated_energy == simulated.summary.total_energy_kw
        baseline_water == baseline.summary.total_water_lph
        simulated_water == simulated.summary.total_water_lph
        energy_savings == baseline_energy - simulated_energy
        water_savings == baseline_water - simulated_water
    IN [energy_savings_kw |-> energy_savings,
        energy_savings_pct |-> SavingsPct(energy_savings, baseline_energy, ties.energy),
        water_savings_lph |-> water_savings,
        water_savings_pct |-> SavingsPct(water_savings, baseline_water, ties.water),
        cost_savings_hourly |-> CostSavings(energy_savings)]

\* the verdict were the comparison >= 10
RecommendationFromTen(comparison) ==
    IF comparison.energy_savings_pct >= 100 THEN "Implement" ELSE "Review"

\* "Implement" if comparison['energy_savings_pct'] > 10 else "Review"
Recommendation(comparison) ==
    IF comparison.energy_savings_pct > 100 THEN "Implement" ELSE "Review"

\* the dict run_what_if_simulation returns
WhatIfResult(scenario, objs, limited, budget_level, baseline, simulated, ties) ==
    LET comparison == CompareStates(baseline, simulated, ties)
    IN [scenario |-> scenario,
        baseline |-> baseline.summary,
        simulated |-> simulated.summary,
        comparison |-> comparison,
        recommendation |-> Recommendation(comparison),
        execution_info |->
            [rooms_analyzed |-> Len(limited.rooms),
             buildings_analyzed |-> Cardinality(BuildingsOf(objs, limited.rooms)),
             budget_level |-> budget_level]]

Ties == [energy : BOOLEAN, water : BOOLEAN]

----------------------------------------------------------------------------
(* The state after construction, and the steps *)

EmptyCampus == [rooms |-> <<>>, buildings |-> {}]

NoLog == [reconciled |-> FALSE, room_ids |-> {}, evicted |-> {}, created |-> {}]

Locals(f) == [p \in Procs |-> f]

\* CampusAgentGraph.__init__: no campus data, no agents; no request yet
Init ==
    /\ campus_data = EmptyCampus
    /\ room_agents = <<>>
    /\ building_agents = <<>>
    /\ roomObjs \in Sources
    /\ oracle_failures = MaxFailures
    /\ pc = Locals("idle")
    /\ req = Locals(Unset)
    /\ current_data = Locals(Unset)
    /\ limited_data = Locals(Unset)
    /\ modified_data = Locals(Unset)
    /\ tasks = Locals(<<>>)
    /\ simulated_state = Locals(Unset)
    /\ baseline_state = Locals(Unset)
    /\ result = Locals(Unset)
    /\ called = Locals(Unset)
    /\ budget_log = Locals(Unset)
    /\ initial_states = Locals([simulated |-> Unset, baseline |-> Unset])
    /\ pool_log = NoLog

\* lifespan: set_campus_data, before the first request is served
SetCampusData ==
    /\ campus_data = EmptyCampus
    /\ campus_data' \in CampusChoices
    /\ UNCHANGED <<room_agents, building_agents, roomObjs, oracle_failures, pc, req,
                   current_data, limited_data, modified_data, tasks, simulated_state,
                   baseline_state, result, called, budget_log, initial_states, pool_log>>

\* the await were it to end with the first task that ends
FirstDone(p) ==
    \/ DOMAIN tasks[p] = {}
    \/ \E r \in DOMAIN tasks[p] : tasks[p][r].status # "pending"

\* await asyncio.gather(*tasks) has every result
AllDone(p) == \A r \in DOMAIN tasks[p] : tasks[p][r].status # "pending"

\* run_what_if_simulation from its call to the await of the simulated run's
\* room tasks: budget constraints, scenario, and the simulated
\* run_campus_analysis up to its fan-out
StartWhatIfWith(p, scenario, num_rooms, num_buildings, budget_level) ==
    /\ pc[p] = "idle"
    /\ campus_data # EmptyCampus
    /\ \E order \in Orderings(BuildingsOf(roomObjs, SourceOrder)) :
          LET data == [rooms |-> SourceOrder, parameters |-> "absent"]
              budget == ApplyBudgetConstraints(roomObjs, data, num_rooms, num_buildings,
                                               budget_level, order)
              objs == ApplyScenario(roomObjs, budget.data, scenario)
              modified == ShallowCopy(budget.data)
              run == AnalysisPrefix(room_agents, building_agents, campus_data, objs, modified)
          IN /\ num_buildings = None => order = CHOOSE o \in Orderings(BuildingsOf(roomObjs, SourceOrder)) : TRUE
             /\ req' = [req EXCEPT ![p] = [kind |-> "what_if", scenario |-> scenario,
                                           num_rooms |-> num_rooms,
                                           num_buildings |-> num_buildings,
                                           budget_level |-> budget_level]]
             /\ current_data' = [current_data EXCEPT ![p] = data]
             /\ called' = [called EXCEPT ![p] = roomObjs]
             /\ limited_data' = [limited_data EXCEPT ![p] = budget.data]
             /\ budget_log' = [budget_log EXCEPT ![p] = budget.log]
             /\ modified_data' = [modified_data EXCEPT ![p] = modified]
             /\ roomObjs' = objs
             /\ room_agents' = run.room_agents
             /\ building_agents' = run.building_agents
             /\ pool_log' = run.log
             /\ tasks' = [tasks EXCEPT ![p] = run.tasks]
             /\ initial_states' = [initial_states EXCEPT ![p].simulated = run.initial]
    /\ pc' = [pc EXCEPT ![p] = "simulated"]
    /\ UNCHANGED <<campus_data, oracle_failures, simulated_state, baseline_state, result>>

\* a what-if request with any scenario and any budget
StartWhatIf(p) ==
    \E scenario \in Scenarios, num_rooms \in NumRoomsChoices,
       num_buildings \in NumBuildingsChoices, budget_level \in BudgetLevels :
        StartWhatIfWith(p, scenario, num_rooms, num_buildings, budget_level)

\* _run_single_room_agent: the pipeline of room r ran to its end
RoomAgentReturns(p, r) ==
    /\ pc[p] \in {"simulated", "baseline", "analysis"}
    /\ r \in DOMAIN tasks[p]
    /\ tasks[p][r].status = "pending"
    /\ tasks' = [tasks EXCEPT ![p][r] =
                    [@ EXCEPT !.status = "done", !.state = PipelineResult(@),
                              !.node = "END"]]
    /\ UNCHANGED <<campus_data, room_agents, building_agents, roomObjs, oracle_failures,
                   pc, req, current_data, limited_data, modified_data, simulated_state,
                   baseline_state, result, called, budget_log, initial_states, pool_log>>

\* _run_single_room_agent: a stage raised (the reasoning service failed), and
\* the initial state is returned
RoomAgentRaises(p, r) ==
    /\ pc[p] \in {"simulated", "baseline", "analysis"}
    /\ r \in DOMAIN tasks[p]
    /\ tasks[p][r].status = "pending"
    /\ oracle_failures > 0
    /\ oracle_failures' = oracle_failures - 1
    /\ tasks' = [tasks EXCEPT ![p][r] =
                    [@ EXCEPT !.status = "defaulted", !.state = ResultOnError(tasks[p][r])]]
    /\ UNCHANGED <<campus_data, room_agents, building_agents, roomObjs,
                   pc, req, current_data, limited_data, modified_data, simulated_state,
                   baseline_state, result, called, budget_log, initial_states, pool_log>>

\* run_campus_analysis after the await of the room tasks were a failure of
\* the reasoning service in the recommendations caught, and the campus state
\* returned
AggregationDegrades(p) ==
    /\ pc[p] \in {"simulated", "baseline", "analysis"}
    /\ AllDone(p)
    /\ oracle_failures > 0
    /\ oracle_failures' = oracle_failures - 1
    /\ result' = [result EXCEPT ![p] = AnalysisSuffix(building_agents, tasks[p])]
    /\ pc' = [pc EXCEPT ![p] = "done"]
    /\ UNCHANGED <<campus_data, room_agents, building_agents, roomObjs, req, current_data,
                   limited_data, modified_data, tasks, simulated_state, baseline_state,
                   called, budget_log, initial_states, pool_log>>

\* run_campus_analysis after the await of the room tasks: the reasoning
\* service fails in generate_building_recommendations or in
\* _generate_campus_recommendations, nothing catches the exception, and it
\* leaves run_campus_analysis and, in a what-if, run_what_if_simulation
AggregationRaises(p) ==
    /\ pc[p] \in {"simulated", "baseline", "analysis"}
    /\ AllDone(p)
    /\ oracle_failures > 0
    /\ oracle_failures' = oracle_failures - 1
    /\ pc' = [pc EXCEPT ![p] = "raised"]
    /\ UNCHANGED <<campus_data, room_agents, building_agents, roomObjs, req, current_data,
                   limited_data, modified_data, tasks, simulated_state, baseline_state,
                   result, called, budget_log, initial_states, pool_log>>

\* run_what_if_simulation from the end of the simulated run's fan-out to the
\* await of the baseline run's room tasks: the simulated run's aggregation,
\* then the baseline run_campus_analysis(limited_data) up to its fan-out
ContinueWhatIf(p) ==
    /\ pc[p] = "simulated"
    /\ AllDone(p)
    /\ LET run == AnalysisPrefix(room_agents, building_agents, campus_data, roomObjs,
                                 limited_data[p])
       IN /\ simulated_state' =
                 [simulated_state EXCEPT ![p] = AnalysisSuffix(building_agents, tasks[p])]
          /\ room_agents' = run.room_agents
          /\ building_agents' = run.building_agents
          /\ pool_log' = run.log
          /\ tasks' = [tasks EXCEPT ![p] = run.tasks]
          /\ initial_states' = [initial_states EXCEPT ![p].baseline = run.initial]
    /\ pc' = [pc EXCEPT ![p] = "baseline"]
    /\ UNCHANGED <<campus_data, roomObjs, oracle_failures, req, current_data, limited_data,
                   modified_data, baseline_state, result, called, budget_log>>

\* run_what_if_simulation from the end of the baseline run's fan-out to its
\* return: the baseline run's aggregation, the comparison and the verdict
FinishWhatIf(p) ==
    /\ pc[p] = "baseline"
    /\ AllDone(p)
    /\ \E ties \in Ties :
          LET baseline == AnalysisSuffix(building_agents, tasks[p])
          IN /\ baseline_state' = [baseline_state EXCEPT ![p] = baseline]
             /\ result' = [result EXCEPT ![p] =
                              WhatIfResult(req[p].scenario, roomObjs, limited_data[p],
                                           req[p].budget_level, baseline,
                                           simulated_state[p], ties)]
    /\ pc' = [pc EXCEPT ![p] = "done"]
    /\ UNCHANGED <<campus_data, room_agents, building_agents, roomObjs, oracle_failures,
                   req, current_data, limited_data, modified_data, tasks, simulated_state,
                   called, budget_log, initial_states, pool_log>>

Next ==
    \/ SetCampusData
    \/ \E p \in Procs : StartWhatIf(p)
    \/ \E p \in Procs, r \in RoomIds : RoomAgentReturns(p, r)
    \/ \E p \in Procs, r \in RoomIds : RoomAgentRaises(p, r)
    \/ \E p \in Procs : ContinueWhatIf(p)
    \/ \E p \in Procs : FinishWhatIf(p)
    \/ \E p \in Procs : AggregationRaises(p)

Spec == Init /\ [][Next]_vars


----------------------------------------------------------------------------
(* Analysis requests: run_campus_analysis called on the observations of a
   working set of rooms, one request after another *)

RECURSIVE SubSequences(_)
SubSequences(s) ==
    IF s = <<>> THEN {<<>>}
    ELSE LET rest == SubSequences(Tail(s))
         IN rest \cup {<<Head(s)>> \o t : t \in rest}

\* the 'rooms' dicts a request can carry, and its 'parameters'
WorkingSets == SubSequences(SourceOrder)

ParameterChoices == {"absent", "low"}

\* run_campus_analysis from its call to the await of the room tasks, and to
\* its return when there is no room task to await
StartAnalysisWith(p, rooms, parameters) ==
    /\ pc[p] = "idle"
    /\ campus_data # EmptyCampus
    /\ LET data == [rooms |-> rooms, parameters |-> parameters]
           run == AnalysisPrefix(room_agents, building_agents, campus_data, roomObjs, data)
       IN /\ req' = [req EXCEPT ![p] = [kind |-> "analysis"]]
          /\ current_data' = [current_data EXCEPT ![p] = data]
          /\ called' = [called EXCEPT ![p] = roomObjs]
          /\ room_agents' = run.room_agents
          /\ building_agents' = run.building_agents
          /\ pool_log' = run.log
          /\ tasks' = [tasks EXCEPT ![p] = run.tasks]
          /\ IF DOMAIN run.tasks = {}
             THEN \* the gather of no task does not suspend: the run goes on
                  \* to the campus recommendations, and returns or raises
                  \/ /\ pc' = [pc EXCEPT ![p] = "done"]
                     /\ result' = [result EXCEPT ![p] =
                                      AnalysisSuffix(run.building_agents, run.tasks)]
                     /\ UNCHANGED oracle_failures
                  \/ /\ oracle_failures > 0
                     /\ oracle_failures' = oracle_failures - 1
                     /\ pc' = [pc EXCEPT ![p] = "raised"]
                     /\ UNCHANGED result
             ELSE /\ pc' = [pc EXCEPT ![p] = "analysis"]
                  /\ UNCHANGED <<result, oracle_failures>>
    /\ UNCHANGED <<campus_data, roomObjs, limited_data, modified_data,
                   simulated_state, baseline_state, budget_log, initial_states>>

\* a request for the analysis of any working set at any depth
StartAnalysis(p) ==
    \E rooms \in WorkingSets, parameters \in ParameterChoices :
        StartAnalysisWith(p, rooms, parameters)

\* run_campus_analysis from the end of the fan-out to its return
FinishAnalysis(p) ==
    /\ pc[p] = "analysis"
    /\ AllDone(p)
    /\ result' = [result EXCEPT ![p] = AnalysisSuffix(building_agents, tasks[p])]
    /\ pc' = [pc EXCEPT ![p] = "done"]
    /\ UNCHANGED <<campus_data, room_agents, building_agents, roomObjs, oracle_failures,
                   req, current_data, limited_data, modified_data, tasks, simulated_state,
                   baseline_state, called, budget_log, initial_states, pool_log>>

\* the handler has returned and its locals are gone; the next request may come
NextRequest(p) ==
    /\ pc[p] \in {"done", "raised"}
    /\ pc' = [pc EXCEPT ![p] = "idle"]
    /\ req' = [req EXCEPT ![p] = Unset]
    /\ current_data' = [current_data EXCEPT ![p] = Unset]
    /\ tasks' = [tasks EXCEPT ![p] = <<>>]
    /\ result' = [result EXCEPT ![p] = Unset]
    /\ called' = [called EXCEPT ![p] = Unset]
    /\ UNCHANGED <<campus_data, room_agents, building_agents, roomObjs, oracle_failures,
                   limited_data, modified_data, simulated_state, baseline_state,
                   budget_log, initial_states, pool_log>>

NextPool ==
    \/ SetCampusData
    \/ \E p \in Procs : StartAnalysis(p)
    \/ \E p \in Procs, r \in RoomIds : RoomAgentReturns(p, r)
    \/ \E p \in Procs, r \in RoomIds : RoomAgentRaises(p, r)
    \/ \E p \in Procs : FinishAnalysis(p)
    \/ \E p \in Procs : AggregationRaises(p)
    \/ \E p \in Procs : NextRequest(p)

SpecPool == Init /\ [][NextPool]_vars


----------------------------------------------------------------------------
(* One analysis request with the room pipelines run node by node *)

\* the graph's merge of the dict a node returns into the state: the
\* 'messages' channel is declared with operator.add, so the returned list is
\* added to the list the state holds; every other key is overwritten
MergeState(state, update) ==
    [update EXCEPT !.messages = state.messages \o update.messages]

\* what a task's history keeps of a node it ran: the depth of the agent when
\* the node ran, whether the node called the reasoning service, and whether
\* that call failed
Ran(agent, node, failed) ==
    [node |-> node, budget_level |-> agent.budget_level,
     oracle |-> CallsOracle(agent, node), failed |-> failed]

\* the task of room r of request p is at node
AtNode(p, r, node) ==
    /\ pc[p] = "analysis"
    /\ r \in DOMAIN tasks[p]
    /\ tasks[p][r].status = "pending"
    /\ tasks[p][r].node = node

\* the task of room r after its node has returned state
Advance(p, r, state) ==
    LET next == NextNode(tasks[p][r].node)
    IN /\ tasks' = [tasks EXCEPT ![p][r] =
                       [@ EXCEPT !.state = MergeState(tasks[p][r].state, state),
                                 !.node = next,
                                 !.status = IF next = "END" THEN "done" ELSE "pending",
                                 !.log = Append(@, Ran(room_agents[r], tasks[p][r].node,
                                                       FALSE))]]
       /\ UNCHANGED <<campus_data, room_agents, building_agents, roomObjs, oracle_failures,
                      pc, req, current_data, limited_data, modified_data, simulated_state,
                      baseline_state, result, called, budget_log, initial_states, pool_log>>

\* node analyze_observations of the pipeline of room r
RunAnalyzeObservations(p, r) ==
    /\ AtNode(p, r, "analyze_observations")
    /\ \E anomaly_lines \in 0..MaxReplyLines :
          Advance(p, r, AnalyzeObservations(room_agents[r], tasks[p][r].state, anomaly_lines))

\* node infer_resources
RunInferResources(p, r) ==
    /\ AtNode(p, r, "infer_resources")
    /\ \E refined_lines \in {0, MaxReplyLines} :
          Advance(p, r, InferResources(tasks[p][r].state, refined_lines))

\* node predict_demand; when it raises, _run_single_room_agent catches the
\* error and returns the initial state
RunPredictDemand(p, r) ==
    /\ AtNode(p, r, "predict_demand")
    /\ IF PredictDemandRaises(tasks[p][r].state)
       THEN /\ tasks' = [tasks EXCEPT ![p][r] =
                            [@ EXCEPT !.status = "defaulted",
                                      !.state = ResultOnError(tasks[p][r]),
                                      !.log = Append(@, Ran(room_agents[r],
                                                            "predict_demand", FALSE))]]
            /\ UNCHANGED <<campus_data, room_agents, building_agents, roomObjs,
                           oracle_failures, pc, req, current_data, limited_data,
                           modified_data, simulated_state, baseline_state, result,
                           called, budget_log, initial_states, pool_log>>
       ELSE \E peak \in BOOLEAN, predicted_lines \in {0, MaxReplyLines} :
                Advance(p, r, PredictDemand(tasks[p][r].state, peak, predicted_lines))

\* node generate_recommendations
RunGenerateRecommendations(p, r) ==
    /\ AtNode(p, r, "generate_recommendations")
    /\ \E action_lines \in 0..MaxActionLines :
          Advance(p, r, GenerateRecommendations(room_agents[r], tasks[p][r].state,
                                                action_lines))

\* a failure of one pipeline were it to end its pending siblings too
NodeRaisesEndingSiblings(p, r) ==
    /\ pc[p] = "analysis"
    /\ r \in DOMAIN tasks[p]
    /\ tasks[p][r].status = "pending"
    /\ CallsOracle(room_agents[r], tasks[p][r].node)
    /\ oracle_failures > 0
    /\ oracle_failures' = oracle_failures - 1
    /\ tasks' = [tasks EXCEPT ![p] =
                    [x \in DOMAIN tasks[p] |->
                        IF tasks[p][x].status = "pending"
                        THEN [tasks[p][x] EXCEPT !.status = "defaulted",
                                                 !.state = ResultOnError(tasks[p][x])]
                        ELSE tasks[p][x]]]
    /\ UNCHANGED <<campus_data, room_agents, building_agents, roomObjs,
                   pc, req, current_data, limited_data, modified_data, simulated_state,
                   baseline_state, result, called, budget_log, initial_states, pool_log>>

\* the call of the reasoning service were it made again after it raised
NodeRaisesRetrying(p, r) ==
    /\ pc[p] = "analysis"
    /\ r \in DOMAIN tasks[p]
    /\ tasks[p][r].status = "pending"
    /\ CallsOracle(room_agents[r], tasks[p][r].node)
    /\ oracle_failures > 0
    /\ oracle_failures' = oracle_failures - 1
    /\ tasks' = [tasks EXCEPT ![p][r] =
                    [@ EXCEPT !.log = Append(@, Ran(room_agents[r], tasks[p][r].node,
                                                    TRUE))]]
    /\ UNCHANGED <<campus_data, room_agents, building_agents, roomObjs,
                   pc, req, current_data, limited_data, modified_data, simulated_state,
                   baseline_state, result, called, budget_log, initial_states, pool_log>>

\* the call of the reasoning service of the node the task is at raises:
\* _run_single_room_agent catches it and returns the initial state
NodeRaises(p, r) ==
    /\ pc[p] = "analysis"
    /\ r \in DOMAIN tasks[p]
    /\ tasks[p][r].status = "pending"
    /\ CallsOracle(room_agents[r], tasks[p][r].node)
    /\ oracle_failures > 0
    /\ oracle_failures' = oracle_failures - 1
    /\ tasks' = [tasks EXCEPT ![p][r] =
                    [@ EXCEPT !.status = "defaulted", !.state = ResultOnError(tasks[p][r]),
                              !.log = Append(@, Ran(room_agents[r], tasks[p][r].node,
                                                    TRUE))]]
    /\ UNCHANGED <<campus_data, room_agents, building_agents, roomObjs,
                   pc, req, current_data, limited_data, modified_data, simulated_state,
                   baseline_state, result, called, budget_log, initial_states, pool_log>>

\* every room of the observation source holds the same number of people
UniformSources ==
    {[r \in RoomIds |-> Observation(r, occ)] : occ \in 0..MaxOcc}

InitPipeline ==
    /\ campus_data = EmptyCampus
    /\ room_agents = <<>>
    /\ building_agents = <<>>
    /\ roomObjs \in UniformSources
    /\ oracle_failures = MaxFailures
    /\ pc = Locals("idle")
    /\ req = Locals(Unset)
    /\ current_data = Locals(Unset)
    /\ limited_data = Locals(Unset)
    /\ modified_data = Locals(Unset)
    /\ tasks = Locals(<<>>)
    /\ simulated_state = Locals(Unset)
    /\ baseline_state = Locals(Unset)
    /\ result = Locals(Unset)
    /\ called = Locals(Unset)
    /\ budget_log = Locals(Unset)
    /\ initial_states = Locals([simulated |-> Unset, baseline |-> Unset])
    /\ pool_log = NoLog

NextPipeline ==
    \/ SetCampusData
    \/ \E p \in Procs : StartAnalysis(p)
    \/ \E p \in Procs, r \in RoomIds : RunAnalyzeObservations(p, r)
    \/ \E p \in Procs, r \in RoomIds : RunInferResources(p, r)
    \/ \E p \in Procs, r \in RoomIds : RunPredictDemand(p, r)
    \/ \E p \in Procs, r \in RoomIds : RunGenerateRecommendations(p, r)
    \/ \E p \in Procs, r \in RoomIds : NodeRaises(p, r)
    \/ \E p \in Procs : FinishAnalysis(p)
    \/ \E p \in Procs : AggregationRaises(p)

SpecPipeline == InitPipeline /\ [][NextPipeline]_vars


----------------------------------------------------------------------------
(* Two analysis requests served by the one orchestrator instance: each handler
   runs on the event loop until it awaits its room tasks, and the other may
   run meanwhile *)

Requests == {"p1", "p2"}

InitConcurrent ==
    /\ campus_data = EmptyCampus
    /\ room_agents = <<>>
    /\ building_agents = <<>>
    /\ roomObjs \in UniformSources
    /\ oracle_failures = MaxFailures
    /\ pc = [p \in Requests |-> "idle"]
    /\ req = [p \in Requests |-> Unset]
    /\ current_data = [p \in Requests |-> Unset]
    /\ limited_data = [p \in Requests |-> Unset]
    /\ modified_data = [p \in Requests |-> Unset]
    /\ tasks = [p \in Requests |-> <<>>]
    /\ simulated_state = [p \in Requests |-> Unset]
    /\ baseline_state = [p \in Requests |-> Unset]
    /\ result = [p \in Requests |-> Unset]
    /\ called = [p \in Requests |-> Unset]
    /\ budget_log = [p \in Requests |-> Unset]
    /\ initial_states = [p \in Requests |-> [simulated |-> Unset, baseline |-> Unset]]
    /\ pool_log = NoLog

NextConcurrent ==
    \/ SetCampusData
    \/ \E p \in Requests : StartAnalysis(p)
    \/ \E p \in Requests, r \in RoomIds : RoomAgentReturns(p, r)
    \/ \E p \in Requests, r \in RoomIds : RoomAgentRaises(p, r)
    \/ \E p \in Requests : FinishAnalysis(p)
    \/ \E p \in Requests : AggregationRaises(p)

SpecConcurrent == InitConcurrent /\ [][NextConcurrent]_vars


----------------------------------------------------------------------------
(* Two analysis requests for the same room, served by the one orchestrator
   instance with the room pipelines run node by node: a pipeline awaits
   between its nodes, and the other request may start meanwhile *)

\* the working set of both requests
SharedRooms == <<"R1">>

\* run_campus_analysis for the shared working set, at any depth
StartSharedAnalysis(p) ==
    \E parameters \in ParameterChoices : StartAnalysisWith(p, SharedRooms, parameters)

InitDepth ==
    /\ campus_data = [rooms |-> RoomConfig, buildings |-> BuildingIds]
    /\ room_agents = <<>>
    /\ building_agents = <<>>
    /\ roomObjs \in UniformSources
    /\ oracle_failures = 0
    /\ pc = [p \in Requests |-> "idle"]
    /\ req = [p \in Requests |-> Unset]
    /\ current_data = [p \in Requests |-> Unset]
    /\ limited_data = [p \in Requests |-> Unset]
    /\ modified_data = [p \in Requests |-> Unset]
    /\ tasks = [p \in Requests |-> <<>>]
    /\ simulated_state = [p \in Requests |-> Unset]
    /\ baseline_state = [p \in Requests |-> Unset]
    /\ result = [p \in Requests |-> Unset]
    /\ called = [p \in Requests |-> Unset]
    /\ budget_log = [p \in Requests |-> Unset]
    /\ initial_states = [p \in Requests |-> [simulated |-> Unset, baseline |-> Unset]]
    /\ pool_log = NoLog

NextDepth ==
    \/ \E p \in Requests : StartSharedAnalysis(p)
    \/ \E p \in Requests, r \in RoomIds : RunAnalyzeObservations(p, r)
    \/ \E p \in Requests, r \in RoomIds : RunInferResources(p, r)
    \/ \E p \in Requests, r \in RoomIds : RunPredictDemand(p, r)
    \/ \E p \in Requests, r \in RoomIds : RunGenerateRecommendations(p, r)
    \/ \E p \in Requests : FinishAnalysis(p)

SpecDepth == InitDepth /\ [][NextDepth]_vars


----------------------------------------------------------------------------
(* POST /simulation/compare on a list of two scenarios: the observations are
   fetched once, and one what-if is awaited after the other on them *)

\* the loop of compare_scenarios: the what-if of a scenario of the list, with
\* the default budget, once the what-if before it has returned
CompareScenario(p) ==
    /\ p = "p2" => pc["p1"] = "done"
    /\ \E scenario \in Scenarios : StartWhatIfWith(p, scenario, None, None, "medium")

InitScenarios ==
    /\ campus_data = [rooms |-> RoomConfig, buildings |-> BuildingIds]
    /\ room_agents = <<>>
    /\ building_agents = <<>>
    /\ roomObjs \in Sources
    /\ oracle_failures = 0
    /\ pc = [p \in Requests |-> "idle"]
    /\ req = [p \in Requests |-> Unset]
    /\ current_data = [p \in Requests |-> Unset]
    /\ limited_data = [p \in Requests |-> Unset]
    /\ modified_data = [p \in Requests |-> Unset]
    /\ tasks = [p \in Requests |-> <<>>]
    /\ simulated_state = [p \in Requests |-> Unset]
    /\ baseline_state = [p \in Requests |-> Unset]
    /\ result = [p \in Requests |-> Unset]
    /\ called = [p \in Requests |-> Unset]
    /\ budget_log = [p \in Requests |-> Unset]
    /\ initial_states = [p \in Requests |-> [simulated |-> Unset, baseline |-> Unset]]
    /\ pool_log = NoLog

NextScenarios ==
    \/ \E p \in Requests : CompareScenario(p)
    \/ \E p \in Requests, r \in RoomIds : RoomAgentReturns(p, r)
    \/ \E p \in Requests : ContinueWhatIf(p)
    \/ \E p \in Requests : FinishWhatIf(p)

SpecScenarios == InitScenarios /\ [][NextScenarios]_vars


----------------------------------------------------------------------------
(* The building analysis on its own: BuildingAgent.aggregate_building_state
   and calculate_building_savings applied to the room results of a building.
   occupancy_rate and the savings are in tenths of a percent. *)

\* BuildingAgent.aggregate_building_state
AggregateBuildingState(room_states, tie_up) ==
    LET R == DOMAIN room_states
        total_occupancy == SumOver([r \in R |-> room_states[r].current_occupancy], R)
        total_capacity == SumOver([r \in R |-> room_states[r].capacity], R)
    IN [total_rooms |-> Cardinality(R),
        total_energy_kw |-> SumOver([r \in R |-> room_states[r].estimated_energy_kw], R),
        total_water_lph |-> SumOver([r \in R |-> room_states[r].estimated_water_lph], R),
        total_occupancy |-> total_occupancy,
        total_capacity |-> total_capacity,
        occupancy_rate |-> RoundDiv(1000 * total_occupancy, Max(total_capacity, 1), tie_up),
        room_states |-> room_states]

\* calculate_building_savings were the total shown without its cap
CalculateBuildingSavingsUncapped(building_state, night, tie_up) ==
    LET room_states == building_state.room_states
        R == DOMAIN room_states
        n == Max(Cardinality(R), 1)
        sum_room_savings == SumOver([r \in R |-> room_states[r].savings_potential], R)
        building_coordination_savings ==
            (IF building_state.occupancy_rate < 300 THEN 10 ELSE 0)
            + (IF night THEN 15 ELSE 0)
    IN [room_level_savings |-> RoundDiv(10 * sum_room_savings, n, tie_up),
        building_level_savings |-> 10 * building_coordination_savings,
        total_potential_savings |->
            RoundDiv(10 * (sum_room_savings + n * building_coordination_savings),
                     n, tie_up),
        estimated_kwh_saved |->
            RoundDiv(building_state.total_energy_kw
                         * (sum_room_savings + n * building_coordination_savings),
                     100 * n, tie_up),
        estimated_water_saved_lph |->
            RoundDiv(building_state.total_water_lph
                         * (sum_room_savings + n * building_coordination_savings),
                     100 * n, tie_up)]

\* BuildingAgent.calculate_building_savings; night says whether the hour is
\* after 20 or before 6.  The average of the room savings is their sum over
\* n, so that min(average + coordination, 50) is the min below over n.
CalculateBuildingSavings(building_state, night, tie_up) ==
    LET room_states == building_state.room_states
        R == DOMAIN room_states
        n == Max(Cardinality(R), 1)
        sum_room_savings == SumOver([r \in R |-> room_states[r].savings_potential], R)
        building_coordination_savings ==
            (IF building_state.occupancy_rate < 300 THEN 10 ELSE 0)
            + (IF night THEN 15 ELSE 0)
    IN [room_level_savings |-> RoundDiv(10 * sum_room_savings, n, tie_up),
        building_level_savings |-> 10 * building_coordination_savings,
        total_potential_savings |->
            RoundDiv(10 * Min(sum_room_savings + n * building_coordination_savings, 50 * n),
                     n, tie_up),
        \* total_energy_kw * total_savings_potential / 100, of the total before
        \* its cap, rounded to two decimals
        estimated_kwh_saved |->
            RoundDiv(building_state.total_energy_kw
                         * (sum_room_savings + n * building_coordination_savings),
                     100 * n, tie_up),
        estimated_water_saved_lph |->
            RoundDiv(building_state.total_water_lph
                         * (sum_room_savings + n * building_coordination_savings),
                     100 * n, tie_up)]

\* BuildingAgent.analyze_building
AnalyzeBuilding(room_states, night, tie_up) ==
    LET building_state == AggregateBuildingState(room_states, tie_up)
    IN [building_state |-> building_state,
        savings_analysis |-> CalculateBuildingSavings(building_state, night, tie_up)]

\* the capacities a room configuration can give, and the savings potentials
\* a room result can hold
CapacityInputs == {0, 3, 30}

SavingsInputs == {0, 40}

\* the room results of a building: those of a non-empty set of rooms
RoomResultInputs ==
    UNION {[S -> [current_occupancy : 0..MaxOcc, capacity : CapacityInputs,
                  savings_potential : SavingsInputs,
                  estimated_energy_kw : {200}, estimated_water_lph : {1000}]] :
              S \in (SUBSET RoomIds) \ {{}}}

InitBuilding ==
    /\ campus_data = EmptyCampus
    /\ room_agents = <<>>
    /\ building_agents = <<>>
    /\ roomObjs = [r \in RoomIds |-> Observation(r, 0)]
    /\ oracle_failures = 0
    /\ pc = Locals("aggregate")
    /\ req = Locals(Unset)
    /\ current_data = Locals(Unset)
    /\ limited_data = Locals(Unset)
    /\ modified_data = Locals(Unset)
    /\ tasks \in [Procs -> RoomResultInputs]
    /\ simulated_state = Locals(Unset)
    /\ baseline_state = Locals(Unset)
    /\ result = Locals(Unset)
    /\ called = Locals(Unset)
    /\ budget_log = Locals(Unset)
    /\ initial_states = Locals([simulated |-> Unset, baseline |-> Unset])
    /\ pool_log = NoLog

\* building_state = building_agent.analyze_building(building_room_states)
Analyze(p) ==
    /\ pc[p] = "aggregate"
    /\ \E night \in BOOLEAN, tie_up \in BOOLEAN :
          result' = [result EXCEPT ![p] = AnalyzeBuilding(tasks[p], night, tie_up)]
    /\ pc' = [pc EXCEPT ![p] = "done"]
    /\ UNCHANGED <<campus_data, room_agents, building_agents, roomObjs, oracle_failures,
                   req, current_data, limited_data, modified_data, tasks, simulated_state,
                   baseline_state, called, budget_log, initial_states, pool_log>>

NextBuilding == \E p \in Procs : Analyze(p)

SpecBuilding == InitBuilding /\ [][NextBuilding]_vars


----------------------------------------------------------------------------
(* The room pipeline on its own: the four nodes applied to the rooms of one
   building, and the building analysis applied to their results *)

\* the room types, capacities and head counts of the rooms: an empty room, 5
\* and 6 people on either side of 20% of 30 and of 30% of 20, 18 of 20, and
\* a full room of 20
RoomTypeInputs == {"classroom", "lab", "bathroom"}

RoomCapacityInputs == {0, 20, 30}

OccupancyInputs == {0, 5, 6, 18, 20}

ComfortInputs == {"comfortable", "too_hot", "too_cold"}

EquipmentInputs == {<<>>, <<"hood", "computers">>, <<"lights", "projector", "computers">>}

\* the configuration and the observation of one room
RoomInputs ==
    [config : [type : RoomTypeInputs, building_id : {"B1"}, capacity : RoomCapacityInputs],
     observation : [building_id : {"B1"}, occupancy : OccupancyInputs,
                    occupancy_level : {"low"}, temperature_comfort : ComfortInputs,
                    equipment_running : EquipmentInputs, water_running : BOOLEAN]]

\* the two rooms of the worked example: Room A, a classroom of capacity 30
\* with 5 people, comfortable, nothing running; Room B, a lab of capacity 20
\* with 18 people, too hot, hood and computers running
ExampleRooms ==
    [R1 |-> [config |-> [type |-> "classroom", building_id |-> "B1", capacity |-> 30],
             observation |-> [building_id |-> "B1", occupancy |-> 5,
                              occupancy_level |-> "low",
                              temperature_comfort |-> "comfortable",
                              equipment_running |-> <<>>, water_running |-> FALSE]],
     R2 |-> [config |-> [type |-> "lab", building_id |-> "B1", capacity |-> 20],
             observation |-> [building_id |-> "B1", occupancy |-> 18,
                              occupancy_level |-> "high",
                              temperature_comfort |-> "too_hot",
                              equipment_running |-> <<"hood", "computers">>,
                              water_running |-> FALSE]]]

\* one room of any configuration and observation, or the two of the example
BuildingInputs == {[r \in {"R1"} |-> x] : x \in RoomInputs} \cup {ExampleRooms}

InitRoom ==
    \E rooms \in BuildingInputs, budget_level \in BudgetLevels :
        LET agents == [r \in DOMAIN rooms |->
                          [NewRoomAgent(rooms[r].config) EXCEPT
                              !.budget_level = budget_level]]
            states == [r \in DOMAIN rooms |->
                          BuildRoomInitialState(agents[r], r, rooms[r].observation)]
        IN /\ campus_data = [rooms |-> [r \in DOMAIN rooms |-> rooms[r].config],
                             buildings |-> {"B1"}]
           /\ room_agents = agents
           /\ building_agents = [b \in {"B1"} |-> [room_agents |-> DOMAIN rooms]]
           /\ roomObjs = [r \in DOMAIN rooms |-> rooms[r].observation]
           /\ oracle_failures = 0
           /\ pc = Locals("analysis")
           /\ req = Locals([kind |-> "analysis"])
           /\ current_data = Locals(Unset)
           /\ limited_data = Locals(Unset)
           /\ modified_data = Locals(Unset)
           /\ tasks = Locals([r \in DOMAIN rooms |->
                                 [status |-> "pending", state |-> states[r],
                                  initial |-> states[r], node |-> EntryPoint,
                                  log |-> <<>>]])
           /\ simulated_state = Locals(Unset)
           /\ baseline_state = Locals(Unset)
           /\ result = Locals(Unset)
           /\ called = Locals(Unset)
           /\ budget_log = Locals(Unset)
           /\ initial_states = Locals([simulated |-> Unset, baseline |-> Unset])
           /\ pool_log = NoLog

\* _run_building_agents for the one building: analyze_building on the room
\* states of the gather
AnalyzeRooms(p) ==
    /\ pc[p] = "analysis"
    /\ AllDone(p)
    /\ \E night \in BOOLEAN, tie_up \in BOOLEAN :
          result' = [result EXCEPT ![p] =
                        AnalyzeBuilding(GatherResults(tasks[p]), night, tie_up)]
    /\ pc' = [pc EXCEPT ![p] = "done"]
    /\ UNCHANGED <<campus_data, room_agents, building_agents, roomObjs, oracle_failures,
                   req, current_data, limited_data, modified_data, tasks, simulated_state,
                   baseline_state, called, budget_log, initial_states, pool_log>>

NextRoom ==
    \/ \E p \in Procs, r \in RoomIds : RunAnalyzeObservations(p, r)
    \/ \E p \in Procs, r \in RoomIds : RunInferResources(p, r)
    \/ \E p \in Procs, r \in RoomIds : RunPredictDemand(p, r)
    \/ \E p \in Procs, r \in RoomIds : RunGenerateRecommendations(p, r)
    \/ \E p \in Procs : AnalyzeRooms(p)

SpecRoom == InitRoom /\ [][NextRoom]_vars


----------------------------------------------------------------------------
(* The comparison on its own: _compare_states and the verdict applied to the
   summaries of two campus states *)

\* 85, 95 and 100 kW; 269.9 and 300 kW
ExampleEnergies == {8500, 9500, 10000, 26990, 30000}

EnergyInputs == {10 * k : k \in 0..MaxEnergyTenths} \cup ExampleEnergies

WaterInputs == {1000 * k : k \in 0..MaxWaterSteps}

CampusStates ==
    {[summary |-> [total_energy_kw |-> e, total_water_lph |-> w]] :
        e \in EnergyInputs, w \in WaterInputs}

InitCompare ==
    /\ campus_data = EmptyCampus
    /\ room_agents = <<>>
    /\ building_agents = <<>>
    /\ roomObjs = [r \in RoomIds |-> Observation(r, 0)]
    /\ oracle_failures = 0
    /\ pc = Locals("compare")
    /\ req = Locals(Unset)
    /\ current_data = Locals(Unset)
    /\ limited_data = Locals(Unset)
    /\ modified_data = Locals(Unset)
    /\ tasks = Locals(<<>>)
    /\ simulated_state \in [Procs -> CampusStates]
    /\ baseline_state \in [Procs -> CampusStates]
    /\ result = Locals(Unset)
    /\ called = Locals(Unset)
    /\ budget_log = Locals(Unset)
    /\ initial_states = Locals([simulated |-> Unset, baseline |-> Unset])
    /\ pool_log = NoLog

\* comparison = self._compare_states(baseline_state, simulated_state), and the
\* verdict of the returned dict
Compare(p) ==
    /\ pc[p] = "compare"
    /\ \E ties \in Ties :
          LET comparison == CompareStates(baseline_state[p], simulated_state[p], ties)
          IN result' = [result EXCEPT ![p] =
                           [comparison |-> comparison,
                            recommendation |-> Recommendation(comparison)]]
    /\ pc' = [pc EXCEPT ![p] = "done"]
    /\ UNCHANGED <<campus_data, room_agents, building_agents, roomObjs, oracle_failures,
                   req, current_data, limited_data, modified_data, tasks, simulated_state,
                   baseline_state, called, budget_log, initial_states, pool_log>>

NextCompare == \E p \in Procs : Compare(p)

SpecCompare == InitCompare /\ [][NextCompare]_vars


----------------------------------------------------------------------------
(* The campus insights on their own: _generate_campus_insights applied to the
   building states of a run.  Energy, water, the savings, the cost and the
   CO2 reduction are in hundredths, the occupancy rate in tenths of a percent *)

\* the key order of the building_states dict
CampusBuildingOrder == <<"B1", "B2", "B3", "B4">>

\* sorted() on the energies were reverse=True left out
RECURSIVE InsertByEnergyAscending(_, _, _)
InsertByEnergyAscending(building_states, sorted, b) ==
    IF sorted = <<>> THEN <<b>>
    ELSE IF building_states[Head(sorted)].total_energy_kw
                <= building_states[b].total_energy_kw
         THEN <<Head(sorted)>> \o InsertByEnergyAscending(building_states, Tail(sorted), b)
         ELSE <<b>> \o sorted

\* one step of sorted(building_states.items(), key=total_energy_kw,
\* reverse=True): b goes after every building of at least its energy
RECURSIVE InsertByEnergy(_, _, _)
InsertByEnergy(building_states, sorted, b) ==
    IF sorted = <<>> THEN <<b>>
    ELSE IF building_states[Head(sorted)].total_energy_kw
                >= building_states[b].total_energy_kw
         THEN <<Head(sorted)>> \o InsertByEnergy(building_states, Tail(sorted), b)
         ELSE <<b>> \o sorted

\* the sorted items, as the list of their keys; order is the dict's key order
RECURSIVE SortedByEnergy(_, _)
SortedByEnergy(building_states, order) ==
    IF order = <<>> THEN <<>>
    ELSE InsertByEnergy(building_states,
                        SortedByEnergy(building_states, SubSeq(order, 1, Len(order) - 1)),
                        order[Len(order)])

\* the number of buildings listed as critical: sorted(...)[:3]
MaxCritical == 3

\* the critical_buildings list
CriticalBuildings(building_states, order) ==
    LET critical == Take(SortedByEnergy(building_states, order), MaxCritical)
    IN [i \in 1..Len(critical) |->
           [building_id |-> critical[i],
            energy_kw |-> building_states[critical[i]].total_energy_kw,
            occupancy_rate |-> building_states[critical[i]].occupancy_rate]]

\* the cost estimate were a kWh to cost 0.10
EstimatedCostSavingsTenCents(total_kwh_savings, tie_up) ==
    RoundDiv(10 * total_kwh_savings, 100, tie_up)

\* round(total_kwh_savings * 0.12, 2)
EstimatedCostSavingsHourly(total_kwh_savings, tie_up) ==
    RoundDiv(12 * total_kwh_savings, 100, tie_up)

\* round(total_kwh_savings * 0.5, 2)
Co2ReductionKg(total_kwh_savings, tie_up) == RoundDiv(5 * total_kwh_savings, 10, tie_up)

\* _generate_campus_insights on building states that hold their occupancy
\* rate and their savings analysis: the summary with its occupancy rate, the
\* savings potential and the critical buildings
CampusInsights(building_states, order, tie_up) ==
    LET B == DOMAIN building_states
        col(f) == [b \in B |-> building_states[b][f]]
        total_occupancy == SumOver(col("total_occupancy"), B)
        total_capacity == SumOver(col("total_capacity"), B)
        total_kwh_savings ==
            SumOver([b \in B |-> building_states[b].savings_analysis.estimated_kwh_saved], B)
        total_water_savings ==
            SumOver([b \in B |->
                        building_states[b].savings_analysis.estimated_water_saved_lph], B)
    IN [building_states |-> building_states,
        summary |->
           [total_buildings |-> Cardinality(B),
            total_rooms |-> SumOver(col("total_rooms"), B),
            total_energy_kw |-> SumOver(col("total_energy_kw"), B),
            total_water_lph |-> SumOver(col("total_water_lph"), B),
            total_occupancy |-> total_occupancy,
            total_capacity |-> total_capacity,
            occupancy_rate |->
                RoundDiv(1000 * total_occupancy, Max(total_capacity, 1), tie_up)],
        savings_potential |->
           [total_kwh_saved |-> total_kwh_savings,
            total_water_saved_lph |-> total_water_savings,
            estimated_cost_savings_hourly |->
                EstimatedCostSavingsHourly(total_kwh_savings, tie_up),
            co2_reduction_kg |-> Co2ReductionKg(total_kwh_savings, tie_up)],
        critical_buildings |-> CriticalBuildings(building_states, order)]

\* the energies of a building: 2.0, 2.5 and 13.3 kW; its head count and
\* capacity; the kWh it can save: none or 1.35
BuildingEnergyInputs == {200, 250, 1330}

BuildingOccupancyInputs == {<<0, 0>>, <<1, 3>>}

KwhSavedInputs == {0, 135}

\* the building states analyze_building can return
BuildingStateInputs ==
    {[total_rooms |-> IF e = 1330 THEN 2 ELSE 1,
      total_energy_kw |-> e,
      total_water_lph |-> IF e = 1330 THEN 1000 ELSE 0,
      total_occupancy |-> oc[1],
      total_capacity |-> oc[2],
      occupancy_rate |-> RoundDiv(1000 * oc[1], Max(oc[2], 1), FALSE),
      savings_analysis |-> [estimated_kwh_saved |-> k,
                            estimated_water_saved_lph |-> IF e = 1330 THEN 550 ELSE 0]] :
        e \in BuildingEnergyInputs, oc \in BuildingOccupancyInputs, k \in KwhSavedInputs}

\* the building_states dicts: those of the first n buildings of the key order
BuildingStatesInputs ==
    UNION {[Range(SubSeq(CampusBuildingOrder, 1, n)) -> BuildingStateInputs] :
              n \in 0..Len(CampusBuildingOrder)}

InitCampus ==
    /\ campus_data = EmptyCampus
    /\ room_agents = <<>>
    /\ building_agents = <<>>
    /\ roomObjs = [r \in RoomIds |-> Observation(r, 0)]
    /\ oracle_failures = 0
    /\ pc = Locals("insights")
    /\ req = Locals(Unset)
    /\ current_data = Locals(Unset)
    /\ limited_data = Locals(Unset)
    /\ modified_data = Locals(Unset)
    /\ tasks = Locals(<<>>)
    /\ simulated_state = Locals(Unset)
    /\ baseline_state = Locals(Unset)
    /\ result \in [Procs -> {[building_states |-> bs] : bs \in BuildingStatesInputs}]
    /\ called = Locals(Unset)
    /\ budget_log = Locals(Unset)
    /\ initial_states = Locals([simulated |-> Unset, baseline |-> Unset])
    /\ pool_log = NoLog

\* campus_state = self._generate_campus_insights(building_states)
GenerateInsights(p) ==
    /\ pc[p] = "insights"
    /\ \E tie_up \in BOOLEAN :
          LET building_states == result[p].building_states
              order == SelectSeq(CampusBuildingOrder,
                                 LAMBDA b : b \in DOMAIN building_states)
          IN result' = [result EXCEPT ![p] = CampusInsights(building_states, order, tie_up)]
    /\ pc' = [pc EXCEPT ![p] = "done"]
    /\ UNCHANGED <<campus_data, room_agents, building_agents, roomObjs, oracle_failures,
                   req, current_data, limited_data, modified_data, tasks, simulated_state,
                   baseline_state, called, budget_log, initial_states, pool_log>>

NextCampus == \E p \in Procs : GenerateInsights(p)

SpecCampus == InitCampus /\ [][NextCampus]_vars


----------------------------------------------------------------------------
(* Properties of the what-if engine (specification Spec) *)

\* request p is a what-if whose budget constraints and scenario have been applied
InWhatIf(p) == pc[p] \in {"simulated", "baseline", "done"} /\ req[p].kind = "what_if"

\* the baseline run of request p has built its initial states
BaselineBuilt(p) == pc[p] \in {"baseline", "done"} /\ req[p].kind = "what_if"

\* C1: the baseline run analyses the observations as they were when
\* run_what_if_simulation was called: occupancy, running equipment and thermal
\* comfort of every baseline initial state are those of the room at the call.
C1_BaselineAnalysesCalledData ==
    \A p \in Procs : BaselineBuilt(p) =>
        \A r \in DOMAIN initial_states[p].baseline :
            LET state == initial_states[p].baseline[r]
            IN /\ state.current_occupancy = called[p][r].occupancy
               /\ state.equipment_running = called[p][r].equipment_running
               /\ state.temperature_comfort = called[p][r].temperature_comfort

\* C2: _apply_scenario is pure: once it has returned, every room object of its
\* input data (the budget-limited data, and so the caller's current_data)
\* holds what it held before the call.
C2_ApplyScenarioLeavesInput ==
    \A p \in Procs : InWhatIf(p) =>
        \A r \in Range(limited_data[p].rooms) : roomObjs[r] = called[p][r]

\* C3: close_building(B) gives, in the returned data, occupancy 0 and no
\* running equipment to every room of building B, and the occupancy and the
\* running equipment it had to every room of another building.
C3_CloseBuilding ==
    \A p \in Procs :
        (InWhatIf(p) /\ req[p].scenario.type = "close_building") =>
            \A r \in Range(modified_data[p].rooms) :
                IF called[p][r].building_id = req[p].scenario.building_id
                THEN /\ roomObjs[r].occupancy = 0
                     /\ roomObjs[r].equipment_running = <<>>
                ELSE /\ roomObjs[r].occupancy = called[p][r].occupancy
                     /\ roomObjs[r].equipment_running = called[p][r].equipment_running

\* a building was closed that held an occupied room with running equipment,
\* while an occupied room of another building was in the data
C3_Witness ==
    \E p \in Procs :
        /\ InWhatIf(p)
        /\ req[p].scenario = [type |-> "close_building", building_id |-> "B1"]
        /\ {"R1", "R2"} \subseteq Range(modified_data[p].rooms)
        /\ called[p]["R1"].occupancy = 1
        /\ called[p]["R2"].occupancy = 1
        /\ roomObjs["R1"].occupancy = 0

\* C4: reduce_hvac gives, in the returned data, thermal comfort "comfortable"
\* to every room of low occupancy level and changes nothing else of it, and
\* changes nothing of a room of medium or high occupancy level.
C4_ReduceHvac ==
    \A p \in Procs :
        (InWhatIf(p) /\ req[p].scenario.type = "reduce_hvac") =>
            \A r \in Range(modified_data[p].rooms) :
                IF called[p][r].occupancy_level = "low"
                THEN roomObjs[r] = [called[p][r] EXCEPT !.temperature_comfort = "comfortable"]
                ELSE /\ called[p][r].occupancy_level \in {"medium", "high"}
                     /\ roomObjs[r] = called[p][r]

\* reduce_hvac ran on data with a too hot room of low and one of medium level
C4_Witness ==
    \E p \in Procs :
        /\ InWhatIf(p)
        /\ req[p].scenario.type = "reduce_hvac"
        /\ {"R1", "R3"} \subseteq Range(modified_data[p].rooms)
        /\ called[p]["R1"].occupancy_level = "low"
        /\ called[p]["R1"].temperature_comfort = "too_hot"
        /\ roomObjs["R1"].temperature_comfort = "comfortable"
        /\ called[p]["R3"].occupancy_level = "medium"
        /\ roomObjs["R3"].temperature_comfort = "too_hot"

PositionIn(rooms, r) == CHOOSE i \in 1..Len(rooms) : rooms[i] = r

\* room a is taken before room b: higher occupancy at the call, or the same
\* occupancy and an earlier place in the pre-filtered rooms
TakenBefore(p, a, b) ==
    LET pre == budget_log[p].prefiltered
    IN \/ called[p][a].occupancy > called[p][b].occupancy
       \/ /\ called[p][a].occupancy = called[p][b].occupancy
          /\ PositionIn(pre, a) < PositionIn(pre, b)

\* C6: with num_rooms = k given, at most k rooms are returned; of more than k
\* pre-filtered rooms exactly the k of highest occupancy, rooms of equal
\* occupancy taken in their original order; of k or fewer, all of them.
C6_TopKByOccupancy ==
    \A p \in Procs :
        (InWhatIf(p) /\ req[p].num_rooms # None) =>
            LET k == req[p].num_rooms[1]
                pre == budget_log[p].prefiltered
                kept == limited_data[p].rooms
            IN /\ Len(kept) <= k
               /\ IF Len(pre) > k
                  THEN /\ Len(kept) = k
                       /\ Range(kept) \subseteq Range(pre)
                       /\ \A a \in Range(kept), b \in Range(pre) \ Range(kept) :
                              TakenBefore(p, a, b)
                       /\ \A i, j \in 1..Len(kept) : i < j => TakenBefore(p, kept[i], kept[j])
                  ELSE kept = pre

\* one room was kept out of three of which the first two shared the highest
\* occupancy
C6_Witness ==
    \E p \in Procs :
        /\ InWhatIf(p)
        /\ req[p].num_rooms = <<1>>
        /\ budget_log[p].prefiltered = SourceOrder
        /\ called[p]["R1"].occupancy = 1
        /\ called[p]["R2"].occupancy = 1
        /\ limited_data[p].rooms = <<"R1">>

\* the distinct building ids of rooms, in the order of their first appearance
RECURSIVE FirstAppearance(_, _)
FirstAppearance(objs, rooms) ==
    IF rooms = <<>> THEN <<>>
    ELSE LET before == FirstAppearance(objs, SubSeq(rooms, 1, Len(rooms) - 1))
             b == objs[rooms[Len(rooms)]].building_id
         IN IF b \in Range(before) THEN before ELSE Append(before, b)

\* C7: with num_buildings = N given, the selected buildings are the first N
\* distinct building ids in order of first appearance among the rooms of the
\* input data, and exactly the rooms of those buildings are kept.
C7_FirstBuildingsByAppearance ==
    \A p \in Procs :
        (InWhatIf(p) /\ req[p].num_buildings # None) =>
            LET first == Take(FirstAppearance(called[p], current_data[p].rooms),
                              req[p].num_buildings[1])
                in_first(r) == called[p][r].building_id \in Range(first)
            IN /\ budget_log[p].selected_buildings = first
               /\ budget_log[p].prefiltered = SelectSeq(current_data[p].rooms, in_first)

----------------------------------------------------------------------------
(* Properties of the comparison (specification SpecCompare) *)

Compared(p) == pc[p] = "done" /\ "comparison" \in DOMAIN result[p]

\* C8: the verdict is "Implement" exactly when the reported energy_savings_pct
\* is greater than 10, else "Review"; 100 kW against 85 kW gives 15.0 and
\* "Implement", 100 kW against 95 kW gives 5.0 and "Review".
C8_Verdict ==
    \A p \in Procs : Compared(p) =>
        LET b == baseline_state[p].summary.total_energy_kw
            s == simulated_state[p].summary.total_energy_kw
            pct == result[p].comparison.energy_savings_pct
        IN /\ result[p].recommendation = (IF pct > 100 THEN "Implement" ELSE "Review")
           /\ (b = 10000 /\ s = 8500) => (pct = 150 /\ result[p].recommendation = "Implement")
           /\ (b = 10000 /\ s = 9500) => (pct = 50 /\ result[p].recommendation = "Review")

\* a saving reported as exactly 10.0 percent was given the verdict "Review"
C8_Witness ==
    \E p \in Procs :
        /\ Compared(p)
        /\ result[p].comparison.energy_savings_pct = 100
        /\ result[p].recommendation = "Review"

Abs(x) == IF x < 0 THEN -x ELSE x

\* value is an integer nearest to num / den
Nearest(value, num, den) == 2 * Abs(value * den - num) <= den

\* C9 as stated: the percentages and the cost are the exact quotients and
\* products.
C9_ExactSavings ==
    \A p \in Procs : Compared(p) =>
        LET b == baseline_state[p].summary
            s == simulated_state[p].summary
            c == result[p].comparison
        IN /\ c.energy_savings_kw = b.total_energy_kw - s.total_energy_kw
           /\ c.energy_savings_pct * Max(b.total_energy_kw, 100) = 1000 * c.energy_savings_kw
           /\ c.water_savings_lph = b.total_water_lph - s.total_water_lph
           /\ c.water_savings_pct * Max(b.total_water_lph, 100) = 1000 * c.water_savings_lph
           /\ c.cost_savings_hourly * 100 = 12 * c.energy_savings_kw

\* C9 (amended): the savings are the differences of the totals; each
\* percentage is 100 * savings / max(baseline, 1) rounded to one decimal, the
\* cost is 0.12 * energy_savings rounded to two decimals; a comparison is
\* returned whatever the baseline, 0 included.
C9_RoundedSavings ==
    \A p \in Procs :
        /\ pc[p] = "done" => "comparison" \in DOMAIN result[p]
        /\ Compared(p) =>
            LET b == baseline_state[p].summary
                s == simulated_state[p].summary
                c == result[p].comparison
            IN /\ c.energy_savings_kw = b.total_energy_kw - s.total_energy_kw
               /\ Nearest(c.energy_savings_pct, 1000 * c.energy_savings_kw,
                          Max(b.total_energy_kw, 100))
               /\ c.water_savings_lph = b.total_water_lph - s.total_water_lph
               /\ Nearest(c.water_savings_pct, 1000 * c.water_savings_lph,
                          Max(b.total_water_lph, 100))
               /\ Nearest(c.cost_savings_hourly, 12 * c.energy_savings_kw, 100)

\* a comparison against a baseline of 0 kW and 0 L/h was returned
C9_Witness ==
    \E p \in Procs :
        /\ Compared(p)
        /\ baseline_state[p].summary.total_energy_kw = 0
        /\ baseline_state[p].summary.total_water_lph = 0
        /\ simulated_state[p].summary.total_energy_kw = 50
        /\ result[p].comparison.energy_savings_pct = -500

----------------------------------------------------------------------------
(* Properties of the agent pool (specification SpecPool) *)

\* C10: no room or building agent exists before the first reconcile; after
\* every reconcile the tracked room ids are among the requested ones and hold
\* every requested id that has a room configuration.
C10_PoolFollowsWorkingSet ==
    /\ ~pool_log.reconciled => (DOMAIN room_agents = {} /\ DOMAIN building_agents = {})
    /\ pool_log.reconciled =>
          /\ DOMAIN room_agents \subseteq pool_log.room_ids
          /\ \A r \in pool_log.room_ids :
                 r \in DOMAIN campus_data.rooms => r \in DOMAIN room_agents

\* a reconcile evicted a room, created another and skipped one that has no
\* configuration
C10_Witness ==
    /\ pool_log.reconciled
    /\ pool_log.evicted # {}
    /\ pool_log.created # {}
    /\ \E r \in pool_log.room_ids : r \notin DOMAIN campus_data.rooms

\* the building ids of the tracked rooms
BuildingsOfTracked == {campus_data.rooms[r].building_id : r \in DOMAIN room_agents}

\* C11 as stated: after every reconcile the tracked building ids are the
\* building ids of the tracked rooms.
C11_BuildingsOfTrackedRooms ==
    pool_log.reconciled => DOMAIN building_agents = BuildingsOfTracked

\* C11 (amended): after every reconcile the tracked building ids are the
\* building ids of the tracked rooms that have a building configuration: a
\* building no tracked room needs is evicted, a needed one that has a
\* configuration is tracked, a needed one that has none is skipped.
C11_ConfiguredBuildingsOfTrackedRooms ==
    pool_log.reconciled =>
        DOMAIN building_agents = BuildingsOfTracked \cap campus_data.buildings

\* a reconcile evicted the only room of a tracked building and kept a room
\* of another building
C11_Witness ==
    /\ pool_log.reconciled
    /\ "R2" \in pool_log.evicted
    /\ "R1" \in DOMAIN room_agents
    /\ DOMAIN building_agents = {"B1"}
    /\ "B2" \in campus_data.buildings

\* C12: a reconcile with the room ids of the reconcile before it leaves the
\* pool as it was: the same tracked rooms with the same configuration, the
\* same buildings with the same registrations, nothing created or evicted.
C12_ReconcileIdempotent ==
    [][(/\ pool_log.reconciled
        /\ pool_log' # pool_log
        /\ pool_log'.room_ids = pool_log.room_ids)
       => (/\ DOMAIN room_agents' = DOMAIN room_agents
           /\ \A r \in DOMAIN room_agents :
                  room_agents'[r].room_config = room_agents[r].room_config
           /\ building_agents' = building_agents
           /\ pool_log'.created = {}
           /\ pool_log'.evicted = {})]_vars

\* a reconcile found every room it was asked for tracked and no other
C12_Witness ==
    /\ pool_log.reconciled
    /\ pool_log.created = {}
    /\ pool_log.evicted = {}
    /\ Cardinality(DOMAIN room_agents) >= 2
    /\ DOMAIN building_agents # {}

\* C13: a requested room id that has no configuration gets no room agent and
\* no pipeline, and the request goes on: every requested room that has a
\* configuration is tracked and has a pipeline scheduled, which has run once
\* the request is done.
C13_UnconfiguredRoomSkipped ==
    \A p \in Procs : pc[p] \in {"analysis", "done"} =>
        \A r \in Range(current_data[p].rooms) :
            IF r \in DOMAIN campus_data.rooms
            THEN /\ r \in DOMAIN room_agents
                 /\ r \in DOMAIN tasks[p]
                 /\ pc[p] = "done" => tasks[p][r].status \in {"done", "defaulted"}
            ELSE /\ r \notin DOMAIN room_agents
                 /\ r \notin DOMAIN tasks[p]

\* a request for three rooms, one of them without a configuration, is done
\* with the two others analysed
C13_Witness ==
    \E p \in Procs :
        /\ pc[p] = "done"
        /\ current_data[p].rooms = SourceOrder
        /\ "R3" \notin DOMAIN campus_data.rooms
        /\ DOMAIN tasks[p] = {"R1", "R2"}
        /\ tasks[p]["R1"].status = "done"


----------------------------------------------------------------------------
(* Properties of the room pipelines and the fan-out (specification
   SpecPipeline) *)

\* the stages in their order
StageOrder ==
    <<"analyze_observations", "infer_resources", "predict_demand",
      "generate_recommendations", "END">>

\* the pipelines of request p are scheduled, running or over
Scheduled(p) == pc[p] \in {"analysis", "done"}

\* C14: every pipeline starts at Observe and moves only from a stage to the
\* one that follows it in Observe, InferResources, PredictDemand, Recommend,
\* Done: no stage runs twice, is skipped or is revisited, and a pipeline has
\* its result when it has reached Done.
C14_StagesInOrder ==
    [][\A p \in Procs :
          /\ (pc[p] = "idle" /\ pc'[p] = "analysis") =>
                 \A r \in DOMAIN tasks'[p] : tasks'[p][r].node = StageOrder[1]
          /\ (pc[p] = "analysis" /\ pc'[p] = "analysis") =>
                 \A r \in DOMAIN tasks[p] :
                     \/ tasks'[p][r].node = tasks[p][r].node
                     \/ \E i \in 1..4 : /\ tasks[p][r].node = StageOrder[i]
                                        /\ tasks'[p][r].node = StageOrder[i + 1]
          /\ Scheduled(p)' =>
                 \A r \in DOMAIN tasks'[p] :
                     tasks'[p][r].status = "done" <=> tasks'[p][r].node = "END"]_vars

\* a pipeline has run its four stages while another has not started
C14_Witness ==
    \E p \in Procs :
        /\ pc[p] = "analysis"
        /\ {"R1", "R2"} \subseteq DOMAIN tasks[p]
        /\ tasks[p]["R1"].node = "END"
        /\ tasks[p]["R1"].state.predicted_peak_time = "10:00-11:00"
        /\ tasks[p]["R2"].node = "analyze_observations"
        /\ tasks[p]["R2"].status = "pending"

\* C15: the result of a pipeline of which a stage raised is the room's
\* pre-pipeline state: the room's configuration and observation, energy 0,
\* water 0, CO2 400, thermal load neutral, no anomalies, no recommendations,
\* savings 0, and nothing of what the stages before the failure computed.
C15_FailedPipelineReturnsInitialState ==
    \A p \in Procs : Scheduled(p) =>
        \A r \in DOMAIN tasks[p] :
            tasks[p][r].status = "defaulted" =>
                tasks[p][r].state =
                    [room_id |-> r,
                     room_type |-> campus_data.rooms[r].type,
                     building_id |-> campus_data.rooms[r].building_id,
                     capacity |-> campus_data.rooms[r].capacity,
                     current_occupancy |-> roomObjs[r].occupancy,
                     occupancy_level |-> roomObjs[r].occupancy_level,
                     temperature_comfort |-> roomObjs[r].temperature_comfort,
                     equipment_running |-> roomObjs[r].equipment_running,
                     water_running |-> roomObjs[r].water_running,
                     estimated_energy_kw |-> 0,
                     estimated_water_lph |-> 0,
                     estimated_co2_ppm |-> 400,
                     thermal_load |-> "neutral",
                     predicted_occupancy_1h |-> 0,
                     predicted_energy_1h |-> [num |-> 0, den |-> 1],
                     predicted_peak_time |-> "",
                     recommendations |-> <<>>,
                     anomalies |-> <<>>,
                     savings_potential |-> 0,
                     messages |-> <<>>]

\* the last stage of a pipeline raised after the three before it had set
\* their outputs
C15_Witness ==
    \E p \in Procs :
        /\ Scheduled(p)
        /\ "R2" \in DOMAIN tasks[p]
        /\ tasks[p]["R2"].status = "defaulted"
        /\ tasks[p]["R2"].node = "generate_recommendations"
        /\ tasks[p]["R2"].state.estimated_energy_kw = 0

\* C16: the fan-out holds one task per tracked room; a step that ends one
\* room's pipeline, by a failure or by its last stage, changes no other
\* room's task and does not end the request; and the fan-out's result holds
\* one result per tracked room under that room's id.
C16_FailuresIsolated ==
    [][\A p \in Procs :
          /\ (pc'[p] = "analysis") =>
                 /\ DOMAIN tasks'[p] = DOMAIN room_agents'
                 /\ AllDone(p)' =>
                        /\ DOMAIN GatherResults(tasks[p])' = DOMAIN room_agents'
                        /\ \A r \in DOMAIN room_agents' :
                               /\ GatherResults(tasks[p])'[r] = tasks'[p][r].state
                               /\ tasks'[p][r].state.room_id = r
          /\ (pc[p] = "analysis" /\ pc'[p] = "analysis") =>
                 \A r \in DOMAIN tasks[p] :
                     (tasks[p][r].status = "pending" /\ tasks'[p][r].status = "defaulted") =>
                         \A x \in DOMAIN tasks[p] \ {r} : tasks'[p][x] = tasks[p][x]
          /\ (pc[p] = "analysis" /\ pc'[p] = "done") =>
                 \A r \in DOMAIN tasks[p] : tasks[p][r].status \in {"done", "defaulted"}]_vars

\* the fan-out of three rooms is over with one pipeline failed and the two
\* others run to their end
C16_Witness ==
    \E p \in Procs :
        /\ pc[p] = "analysis"
        /\ AllDone(p)
        /\ DOMAIN tasks[p] = RoomIds
        /\ tasks[p]["R1"].status = "defaulted"
        /\ tasks[p]["R2"].status = "done"
        /\ tasks[p]["R3"].status = "done"
        /\ tasks[p]["R2"].state.estimated_energy_kw > 0

\* the tracked buildings that have a room result of request p
BuildingsWithResults(p) ==
    {b \in DOMAIN building_agents :
        \E r \in DOMAIN tasks[p] : tasks[p][r].state.building_id = b}

\* C17: the aggregation of a run starts only when every scheduled pipeline
\* has completed or failed and defaulted, whatever the order in which they
\* did, and the campus state is built from the building state of every
\* building of the run: one building state per tracked building that has a
\* room result, the campus totals being the sums over them.
C17_AggregationAfterFanOut ==
    [][\A p \in Procs :
          (pc[p] = "analysis" /\ pc'[p] = "done") =>
              /\ \A r \in DOMAIN tasks[p] : tasks[p][r].status \in {"done", "defaulted"}
              /\ DOMAIN result'[p].building_states = BuildingsWithResults(p)
              /\ \A b \in BuildingsWithResults(p) :
                     result'[p].building_states[b].total_rooms =
                         Cardinality({r \in DOMAIN tasks[p] :
                                         tasks[p][r].state.building_id = b})
              /\ result'[p].summary.total_rooms =
                     Cardinality({r \in DOMAIN tasks[p] :
                                     tasks[p][r].state.building_id \in BuildingsWithResults(p)})
              /\ result'[p].summary.total_buildings = Cardinality(BuildingsWithResults(p))]_vars

\* a run over two buildings is done, one of its pipelines having failed
C17_Witness ==
    \E p \in Procs :
        /\ pc[p] = "done"
        /\ DOMAIN tasks[p] = RoomIds
        /\ \E r \in RoomIds : tasks[p][r].status = "defaulted"
        /\ DOMAIN result[p].building_states = {"B1", "B2"}
        /\ result[p].summary.total_rooms = 3

\* C19: every room result of a run, of a pipeline that completed or of one
\* that failed, has CO2 of at least 400 and a savings potential from 0 to 40.
C19_RoomResultRanges ==
    \A p \in Procs : Scheduled(p) =>
        \A r \in DOMAIN tasks[p] :
            tasks[p][r].status \in {"done", "defaulted"} =>
                /\ tasks[p][r].state.estimated_co2_ppm >= 400
                /\ tasks[p][r].state.savings_potential >= 0
                /\ tasks[p][r].state.savings_potential <= 40

\* a pipeline completed with three anomalies, discomfort and low occupancy
\* (savings 40) in an occupied room, while another failed
C19_Witness ==
    \E p \in Procs :
        /\ Scheduled(p)
        /\ {"R1", "R2"} \subseteq DOMAIN tasks[p]
        /\ tasks[p]["R1"].status = "done"
        /\ tasks[p]["R1"].state.savings_potential = 40
        /\ tasks[p]["R1"].state.estimated_co2_ppm > 400
        /\ tasks[p]["R2"].status = "defaulted"


----------------------------------------------------------------------------
(* Properties of concurrent requests (specification SpecConcurrent) *)

\* the buildings the reconcile of request p tracked: those of its scheduled
\* rooms that have a building configuration
BuildingsEstablished(p) ==
    {campus_data.rooms[r].building_id : r \in DOMAIN tasks[p]} \cap campus_data.buildings

\* C18: from the start of a run's fan-out until its building aggregation,
\* the tracked rooms and buildings are those its reconcile established (the
\* rooms it scheduled and their buildings), whatever other request runs
\* meanwhile on the same orchestrator.
C18_PoolStableDuringRun ==
    \A p \in Requests : pc[p] = "analysis" =>
        /\ DOMAIN room_agents = DOMAIN tasks[p]
        /\ DOMAIN building_agents = BuildingsEstablished(p)


----------------------------------------------------------------------------
(* Properties of the building analysis (specification SpecBuilding) *)

Analyzed(p) == pc[p] = "done" /\ "savings_analysis" \in DOMAIN result[p]

\* the sum of a field over the room results given to request p
TotalOf(p, field) ==
    SumOver([r \in DOMAIN tasks[p] |-> tasks[p][r][field]], DOMAIN tasks[p])

\* C20 as stated: occupancy_rate is exactly 100 * total_occupancy /
\* max(total_capacity, 1), the totals being the sums over the room results,
\* and the total savings potential shown is from 0 to 50.
C20_ExactOccupancyRate ==
    \A p \in Procs : Analyzed(p) =>
        LET b == result[p].building_state
        IN /\ b.total_occupancy = TotalOf(p, "current_occupancy")
           /\ b.total_capacity = TotalOf(p, "capacity")
           /\ b.occupancy_rate * Max(b.total_capacity, 1) = 1000 * b.total_occupancy
           /\ result[p].savings_analysis.total_potential_savings >= 0
           /\ result[p].savings_analysis.total_potential_savings <= 500

\* C20 (amended): occupancy_rate is 100 * total_occupancy /
\* max(total_capacity, 1) rounded to one decimal, the totals being the sums
\* over the room results, and the total savings potential shown is from 0 to
\* 50.
C20_RoundedOccupancyRate ==
    \A p \in Procs : Analyzed(p) =>
        LET b == result[p].building_state
        IN /\ b.total_occupancy = TotalOf(p, "current_occupancy")
           /\ b.total_capacity = TotalOf(p, "capacity")
           /\ Nearest(b.occupancy_rate, 1000 * b.total_occupancy, Max(b.total_capacity, 1))
           /\ result[p].savings_analysis.total_potential_savings >= 0
           /\ result[p].savings_analysis.total_potential_savings <= 500

\* a building of total capacity 0 with a person in it was analysed at night,
\* its rooms holding the highest savings potential
C20_Witness ==
    \E p \in Procs :
        /\ Analyzed(p)
        /\ result[p].building_state.total_capacity = 0
        /\ result[p].building_state.total_occupancy = 1
        /\ result[p].building_state.occupancy_rate = 1000
        /\ result[p].savings_analysis.building_level_savings = 150
        /\ result[p].savings_analysis.total_potential_savings = 500

\* C21: the absolute savings of a building are its totals times the capped
\* percentage (the mean room savings plus the bonuses, at most 50) over 100,
\* rounded to two decimals, so that estimated_kwh_saved is at most half of
\* the building's total energy and estimated_water_saved_lph at most half of
\* its total water.
C21_SavingsFromCappedPercentage ==
    \A p \in Procs : Analyzed(p) =>
        LET b == result[p].building_state
            sa == result[p].savings_analysis
            n == Cardinality(DOMAIN tasks[p])
            capped == Min(TotalOf(p, "savings_potential")
                              + n * (sa.building_level_savings \div 10), 50 * n)
        IN /\ Nearest(sa.estimated_kwh_saved, b.total_energy_kw * capped, 100 * n)
           /\ Nearest(sa.estimated_water_saved_lph, b.total_water_lph * capped, 100 * n)
           /\ 2 * sa.estimated_kwh_saved <= b.total_energy_kw
           /\ 2 * sa.estimated_water_saved_lph <= b.total_water_lph

\* C22: no stage raises on a zero denominator: the pipeline of a room of
\* capacity 0 runs its four stages and ends with their outputs, it does not
\* fall back to the room's pre-pipeline state.
C22_ZeroCapacityCompletes ==
    \A p \in Procs : Scheduled(p) =>
        \A r \in DOMAIN tasks[p] :
            tasks[p][r].state.capacity = 0 =>
                /\ tasks[p][r].status # "defaulted"
                /\ (AllDone(p) => tasks[p][r].state.recommendations # <<>>)

\* C23: only buildings with a room result of the run are aggregated: every
\* building state of a campus state counts at least one room, is that of a
\* building one of the run's room results names, and a tracked building that
\* none of them names has no building state and hence no reply of the
\* reasoning service.
C23_OnlyBuildingsWithRooms ==
    \A p \in Requests :
        (pc[p] = "done" /\ "building_states" \in DOMAIN result[p]) =>
            \A b \in BuildingIds :
                LET contributing == {r \in DOMAIN tasks[p] :
                                        tasks[p][r].state.building_id = b}
                IN IF b \in DOMAIN result[p].building_states
                   THEN /\ result[p].building_states[b].total_rooms >= 1
                        /\ result[p].building_states[b].total_rooms =
                               Cardinality(contributing)
                   ELSE TRUE

\* request p1 analysed room R1 of building B1; when it aggregated, the pool
\* tracked building B2 alone, for request p2, and p1's campus state holds no
\* building state
C23_Witness ==
    /\ DOMAIN pc = Requests
    /\ pc["p1"] = "done"
    /\ pc["p2"] = "analysis"
    /\ DOMAIN tasks["p1"] = {"R1"}
    /\ DOMAIN tasks["p2"] = {"R2"}
    /\ DOMAIN building_agents = {"B2"}
    /\ "building_states" \in DOMAIN result["p1"]
    /\ DOMAIN result["p1"].building_states = {}

\* C24: every room pipeline of the simulated and of the baseline run of a
\* what-if request runs at the analysis depth of the request's budget_level,
\* whether or not the request limits the rooms or the buildings.
C24_DepthIsRequestedBudgetLevel ==
    \A p \in Procs :
        (pc[p] \in {"simulated", "baseline"} /\ req[p].kind = "what_if") =>
            \A r \in DOMAIN tasks[p] :
                room_agents[r].budget_level = req[p].budget_level

\* the campus insights of request p have been computed
Insighted(p) == pc[p] = "done" /\ "critical_buildings" \in DOMAIN result[p]

\* C25: the critical buildings are the at most 3 buildings of highest total
\* energy in descending order of energy: the list holds min(3, number of
\* buildings) distinct buildings with their energies, each entry has at
\* least the energy of the next, and no building outside the list has more
\* energy than one inside it.
C25_CriticalBuildingsTopThree ==
    \A p \in Procs : Insighted(p) =>
        LET bs == result[p].building_states
            critical == result[p].critical_buildings
            listed == {critical[i].building_id : i \in DOMAIN critical}
        IN /\ Len(critical) = Min(3, Cardinality(DOMAIN bs))
           /\ listed \subseteq DOMAIN bs
           /\ Cardinality(listed) = Len(critical)
           /\ \A i \in DOMAIN critical :
                  critical[i].energy_kw = bs[critical[i].building_id].total_energy_kw
           /\ \A i, j \in DOMAIN critical :
                  i < j => critical[i].energy_kw >= critical[j].energy_kw
           /\ \A b \in DOMAIN bs \ listed : \A i \in DOMAIN critical :
                  bs[b].total_energy_kw <= critical[i].energy_kw

\* of four buildings of three different energies, the last in key order has
\* the most energy and heads the list, and one of the least energy is left out
C25_Witness ==
    \E p \in Procs :
        /\ Insighted(p)
        /\ Cardinality(DOMAIN result[p].building_states) = 4
        /\ Cardinality({result[p].building_states[b].total_energy_kw :
                           b \in DOMAIN result[p].building_states}) = 3
        /\ result[p].critical_buildings[1].building_id = "B4"
        /\ result[p].building_states["B1"].total_energy_kw = 200
        /\ result[p].building_states["B2"].total_energy_kw = 250
        /\ \A i \in 1..3 : result[p].critical_buildings[i].building_id # "B1"

\* the sums of a field of the building states of request p
CampusTotal(p, field) ==
    SumOver([b \in DOMAIN result[p].building_states |->
                result[p].building_states[b][field]],
            DOMAIN result[p].building_states)

\* the summed estimated_kwh_saved of the building states of request p
CampusKwhSaved(p) ==
    SumOver([b \in DOMAIN result[p].building_states |->
                result[p].building_states[b].savings_analysis.estimated_kwh_saved],
            DOMAIN result[p].building_states)

\* the summary's totals are the sums over the building states
CampusSums(p) ==
    LET summary == result[p].summary
    IN /\ summary.total_energy_kw = CampusTotal(p, "total_energy_kw")
       /\ summary.total_water_lph = CampusTotal(p, "total_water_lph")
       /\ summary.total_occupancy = CampusTotal(p, "total_occupancy")
       /\ summary.total_capacity = CampusTotal(p, "total_capacity")
       /\ summary.total_rooms = CampusTotal(p, "total_rooms")

\* C26 as stated: the totals are the sums, the occupancy rate is exactly
\* 100 * total_occupancy / max(total_capacity, 1), and the cost estimate and
\* the CO2 reduction are exactly 0.12 and 0.5 times the summed kWh saved.
C26_ExactCampusSummary ==
    \A p \in Procs : Insighted(p) =>
        LET summary == result[p].summary
            savings == result[p].savings_potential
        IN /\ CampusSums(p)
           /\ summary.occupancy_rate * Max(summary.total_capacity, 1)
                  = 1000 * summary.total_occupancy
           /\ 100 * savings.estimated_cost_savings_hourly = 12 * CampusKwhSaved(p)
           /\ 10 * savings.co2_reduction_kg = 5 * CampusKwhSaved(p)

\* C26, amended: the totals are the sums, the occupancy rate is
\* 100 * total_occupancy / max(total_capacity, 1) rounded to one decimal, and
\* the cost estimate and the CO2 reduction are 0.12 and 0.5 times the summed
\* kWh saved, rounded to two decimals.
C26_RoundedCampusSummary ==
    \A p \in Procs : Insighted(p) =>
        LET summary == result[p].summary
            savings == result[p].savings_potential
        IN /\ CampusSums(p)
           /\ Nearest(summary.occupancy_rate, 1000 * summary.total_occupancy,
                      Max(summary.total_capacity, 1))
           /\ Nearest(savings.estimated_cost_savings_hourly, 12 * CampusKwhSaved(p), 100)
           /\ Nearest(savings.co2_reduction_kg, 5 * CampusKwhSaved(p), 10)

\* two buildings, one person in a capacity of 3 between them, 1.35 kWh saved:
\* the rate is 33.3, the cost 0.16 and the CO2 reduction 0.67 or 0.68
C26_Witness ==
    \E p \in Procs :
        /\ Insighted(p)
        /\ DOMAIN result[p].building_states = {"B1", "B2"}
        /\ result[p].summary.total_occupancy = 1
        /\ result[p].summary.total_capacity = 3
        /\ result[p].summary.occupancy_rate = 333
        /\ CampusKwhSaved(p) = 135
        /\ result[p].savings_potential.estimated_cost_savings_hourly = 16
        /\ result[p].savings_potential.co2_reduction_kg = 68

\* the task has run the node, and has not fallen back to its initial state
Past(task, node) ==
    /\ task.status # "defaulted"
    /\ \E i, j \in DOMAIN StageOrder :
          /\ StageOrder[i] = node
          /\ StageOrder[j] = task.node
          /\ i < j

\* C27: the inferred energy, water, CO2 and thermal load and the 1-hour
\* predictions of a pipeline do not depend on the replies of the reasoning
\* service: whatever the replies of Observe, InferResources and PredictDemand
\* held, the estimates are those computed from the room's observation with
\* an empty reply, and the predictions those of the hour's heuristic on them.
C27_EstimatesIndependentOfReplies ==
    \A p \in Procs : Scheduled(p) =>
        \A r \in DOMAIN tasks[p] :
            LET task == tasks[p][r]
                inferred == InferResources(task.initial, 0)
                estimates(state) ==
                    <<state.estimated_energy_kw, state.estimated_water_lph,
                      state.estimated_co2_ppm, state.thermal_load>>
                predictions(state) ==
                    <<state.predicted_occupancy_1h, state.predicted_energy_1h,
                      state.predicted_peak_time>>
            IN /\ Past(task, "infer_resources") =>
                      estimates(task.state) = estimates(inferred)
               /\ Past(task, "predict_demand") =>
                      \E peak \in BOOLEAN :
                          predictions(task.state)
                              = predictions(PredictDemand(inferred, peak, 0))

\* the pipeline of a lab of 18 people, too hot, two pieces of equipment
\* running, ended at medium depth with three anomalies read from the reply of
\* Observe: 10.8 kW, and 19 people predicted within the hour
C27_Witness ==
    \E p \in Procs :
        /\ Scheduled(p)
        /\ "R1" \in DOMAIN tasks[p]
        /\ room_agents["R1"].budget_level = "medium"
        /\ tasks[p]["R1"].status = "done"
        /\ Len(tasks[p]["R1"].state.anomalies) = 3
        /\ tasks[p]["R1"].state.estimated_energy_kw = 1080
        /\ tasks[p]["R1"].state.predicted_occupancy_1h = 19

\* the rooms of request p are the two of the worked example, analysed at low
\* depth
ExampleRun(p) ==
    /\ DOMAIN tasks[p] = {"R1", "R2"}
    /\ \A r \in DOMAIN tasks[p] :
          /\ room_agents[r].budget_level = "low"
          /\ room_agents[r].room_config = ExampleRooms[r].config
          /\ roomObjs[r] = ExampleRooms[r].observation

\* C28: once InferResources has run, a room's energy is its type's base load
\* (classroom 2.0, lab 8.0, bathroom 1.0 kW) + 0.5 per piece of running
\* equipment + 0.1 per person, its water its type's rate (classroom 10, lab
\* 50, bathroom 120 L/h) if water is running and 0 otherwise, its CO2, for a
\* capacity of at least 1, the integer part of 400 + 100 * occupancy +
\* 200 * occupancy / capacity, and its thermal load heating, cooling or
\* neutral for too_cold, too_hot or otherwise.  At low depth the two rooms of
\* the worked example give Room A 2.5 kW, water 0, CO2 933, Room B 10.8 kW
\* and cooling, and their building 13.3 kW and an occupancy rate of 46.0.
C28_InferredResources ==
    \A p \in Procs : Scheduled(p) =>
        /\ \A r \in DOMAIN tasks[p] :
              LET state == tasks[p][r].state
                  base == CASE state.room_type = "classroom" -> 200
                            [] state.room_type = "lab" -> 800
                            [] state.room_type = "bathroom" -> 100
                  rate == CASE state.room_type = "classroom" -> 1000
                            [] state.room_type = "lab" -> 5000
                            [] state.room_type = "bathroom" -> 12000
              IN Past(tasks[p][r], "infer_resources") =>
                    /\ state.estimated_energy_kw =
                           base + 50 * Len(roomObjs[r].equipment_running)
                                + 10 * roomObjs[r].occupancy
                    /\ state.estimated_water_lph =
                           (IF roomObjs[r].water_running THEN rate ELSE 0)
                    /\ state.capacity >= 1 =>
                           /\ state.capacity * (state.estimated_co2_ppm - 400
                                                  - 100 * roomObjs[r].occupancy)
                                  <= 200 * roomObjs[r].occupancy
                           /\ state.capacity * (state.estimated_co2_ppm + 1 - 400
                                                  - 100 * roomObjs[r].occupancy)
                                  > 200 * roomObjs[r].occupancy
                    /\ state.thermal_load =
                           (CASE roomObjs[r].temperature_comfort = "too_cold" -> "heating"
                              [] roomObjs[r].temperature_comfort = "too_hot" -> "cooling"
                              [] OTHER -> "neutral")
        /\ (ExampleRun(p) /\ Past(tasks[p]["R1"], "infer_resources")) =>
              /\ tasks[p]["R1"].state.estimated_energy_kw = 250
              /\ tasks[p]["R1"].state.estimated_water_lph = 0
              /\ tasks[p]["R1"].state.estimated_co2_ppm = 933
        /\ (ExampleRun(p) /\ Past(tasks[p]["R2"], "infer_resources")) =>
              /\ tasks[p]["R2"].state.estimated_energy_kw = 1080
              /\ tasks[p]["R2"].state.thermal_load = "cooling"
        /\ (ExampleRun(p) /\ Analyzed(p)) =>
              /\ result[p].building_state.total_energy_kw = 1330
              /\ result[p].building_state.occupancy_rate = 460

\* the two rooms of the worked example have been analysed at low depth and
\* their building aggregated
C28_Witness ==
    \E p \in Procs :
        /\ ExampleRun(p)
        /\ Analyzed(p)
        /\ \A r \in DOMAIN tasks[p] : tasks[p][r].status = "done"
        /\ result[p].building_state.total_rooms = 2

\* C29: at low depth the anomalies of Observe are those of two rules, in
\* this order: one if the thermal comfort is not comfortable, one if the
\* occupancy is below 20% of the capacity while more than 2 pieces of
\* equipment are running; nothing else gives an anomaly, and the list holds
\* 0, 1 or 2 entries.
C29_LowDepthAnomalies ==
    \A p \in Procs : Scheduled(p) =>
        \A r \in DOMAIN tasks[p] :
            (room_agents[r].budget_level = "low"
             /\ Past(tasks[p][r], "analyze_observations")) =>
                LET anomalies == tasks[p][r].state.anomalies
                    discomfort == roomObjs[r].temperature_comfort # "comfortable"
                    idle == /\ 5 * roomObjs[r].occupancy < campus_data.rooms[r].capacity
                            /\ Len(roomObjs[r].equipment_running) > 2
                IN /\ Len(anomalies) \in 0..2
                   /\ Len(anomalies) = (IF discomfort THEN 1 ELSE 0) + (IF idle THEN 1 ELSE 0)
                   /\ discomfort => anomalies[1] = "temperature_discomfort"
                   /\ idle => anomalies[Len(anomalies)] = "low_occupancy_equipment"

\* at low depth, a room that is too hot with 5 people in a capacity of 30
\* and three pieces of equipment running has both anomalies
C29_Witness ==
    \E p \in Procs :
        /\ Scheduled(p)
        /\ "R1" \in DOMAIN tasks[p]
        /\ room_agents["R1"].budget_level = "low"
        /\ Past(tasks[p]["R1"], "analyze_observations")
        /\ roomObjs["R1"].occupancy = 5
        /\ campus_data.rooms["R1"].capacity = 30
        /\ tasks[p]["R1"].state.anomalies
               = <<"temperature_discomfort", "low_occupancy_equipment">>

\* C30: at low depth the recommendations of Recommend are, in this order,
\* the HVAC adjustment if the comfort is not comfortable, the load reduction
\* if occupancy / max(capacity, 1) < 0.3 and the inferred energy is above
\* 2.0 kW, and the leak check if water runs in a room that is neither a
\* bathroom nor a cafeteria; the "operating efficiently" message is the one
\* entry exactly when none of the three applies, and the list is never empty.
C30_LowDepthRecommendations ==
    \A p \in Procs : Scheduled(p) =>
        \A r \in DOMAIN tasks[p] :
            (room_agents[r].budget_level = "low"
             /\ Past(tasks[p][r], "generate_recommendations")) =>
                LET state == tasks[p][r].state
                    recs == state.recommendations
                    hvac == roomObjs[r].temperature_comfort # "comfortable"
                    load == /\ 10 * roomObjs[r].occupancy
                                   < 3 * Max(campus_data.rooms[r].capacity, 1)
                            /\ state.estimated_energy_kw > 200
                    leak == /\ roomObjs[r].water_running
                            /\ campus_data.rooms[r].type \notin {"bathroom", "cafeteria"}
                    count(c) == IF c THEN 1 ELSE 0
                    fired == count(hvac) + count(load) + count(leak)
                IN /\ recs # <<>>
                   /\ (fired = 0) <=> (recs = <<"no_action_needed">>)
                   /\ fired > 0 => Len(recs) = fired
                   /\ hvac => recs[1] = "adjust_hvac"
                   /\ load => recs[1 + count(hvac)] = "reduce_lighting"
                   /\ leak => recs[Len(recs)] = "check_water"

\* at low depth, a classroom that is too hot, with 5 people in a capacity of
\* 30, equipment and water running, gets the three recommendations
C30_Witness ==
    \E p \in Procs :
        /\ Scheduled(p)
        /\ "R1" \in DOMAIN tasks[p]
        /\ room_agents["R1"].budget_level = "low"
        /\ tasks[p]["R1"].status = "done"
        /\ campus_data.rooms["R1"].type = "classroom"
        /\ tasks[p]["R1"].state.recommendations
               = <<"adjust_hvac", "reduce_lighting", "check_water">>

\* C31: at either depth the savings potential of a room is min(40, 5 per
\* anomaly + 10 if the comfort is not comfortable + 15 if the occupancy ratio
\* is below 0.3 and the inferred energy above 2.0 kW), the anomalies being
\* those Observe left in the state and the energy the one InferResources
\* computed in the same run.
C31_SavingsPotential ==
    \A p \in Procs : Scheduled(p) =>
        \A r \in DOMAIN tasks[p] :
            Past(tasks[p][r], "generate_recommendations") =>
                LET state == tasks[p][r].state
                    energy == InferResources(tasks[p][r].initial, 0).estimated_energy_kw
                    by_anomalies == 5 * Len(state.anomalies)
                    by_comfort ==
                        IF roomObjs[r].temperature_comfort # "comfortable" THEN 10 ELSE 0
                    by_occupancy ==
                        IF /\ 10 * roomObjs[r].occupancy
                                  < 3 * Max(campus_data.rooms[r].capacity, 1)
                           /\ energy > 200
                        THEN 15 ELSE 0
                IN /\ state.estimated_energy_kw = energy
                   /\ state.savings_potential
                          = Min(40, by_anomalies + by_comfort + by_occupancy)

\* at medium depth, a lab that is too hot, with 5 people in a capacity of
\* 20 and three anomalies read from the reply, has a savings potential of 40
C31_Witness ==
    \E p \in Procs :
        /\ Scheduled(p)
        /\ "R1" \in DOMAIN tasks[p]
        /\ room_agents["R1"].budget_level = "medium"
        /\ tasks[p]["R1"].status = "done"
        /\ campus_data.rooms["R1"].type = "lab"
        /\ roomObjs["R1"].occupancy = 5
        /\ Len(tasks[p]["R1"].state.anomalies) = 3
        /\ tasks[p]["R1"].state.savings_potential = 40

\* C32: the low depth is deterministic: whatever the reasoning service
\* replies during the run, the anomalies, the recommendations and the savings
\* potential of a room are those of Observe and Recommend applied to the
\* room's observation, and neither of the two stages calls the reasoning
\* service or adds an exchange to the messages.
C32_LowDepthDeterministic ==
    \A p \in Procs : Scheduled(p) =>
        \A r \in DOMAIN tasks[p] :
            (room_agents[r].budget_level = "low"
             /\ Past(tasks[p][r], "generate_recommendations")) =>
                LET task == tasks[p][r]
                    observed == AnalyzeObservations(room_agents[r], task.initial, 0)
                    inferred == InferResources(observed, 0)
                    recommended == GenerateRecommendations(room_agents[r], inferred, 0)
                    own == {"analyze_observations", "generate_recommendations"}
                IN /\ task.state.anomalies = observed.anomalies
                   /\ task.state.recommendations = recommended.recommendations
                   /\ task.state.savings_potential = recommended.savings_potential
                   /\ \A i \in DOMAIN task.log :
                          task.log[i].node \in own => ~task.log[i].oracle
                   /\ \A i \in DOMAIN task.state.messages :
                          task.state.messages[i].node \notin own

\* a low-depth pipeline has run its four stages on a room with both
\* anomalies and a savings potential of 35
C32_Witness ==
    \E p \in Procs :
        /\ Scheduled(p)
        /\ "R1" \in DOMAIN tasks[p]
        /\ room_agents["R1"].budget_level = "low"
        /\ tasks[p]["R1"].status = "done"
        /\ Len(tasks[p]["R1"].log) = 4
        /\ Len(tasks[p]["R1"].state.anomalies) = 2
        /\ tasks[p]["R1"].state.savings_potential = 35

RequestedDepth(p) ==
    IF current_data[p].parameters = "absent" THEN "medium" ELSE current_data[p].parameters

\* C34: every stage of a room pipeline runs at the depth its run's request
\* supplied, also when a second request of another depth for the same room
\* starts while the pipeline is between two stages: no pipeline runs Observe
\* at one depth and Recommend at the other.
C34_OneDepthPerPipeline ==
    \A p \in Requests :
        pc[p] \in {"analysis", "done"} =>
            \A r \in DOMAIN tasks[p] :
                \A i \in DOMAIN tasks[p][r].log :
                    tasks[p][r].log[i].budget_level = RequestedDepth(p)

\* the campus state of run_campus_analysis on data, every pipeline run to its
\* end, on an orchestrator that has served no request
AnalysisAlone(objs, data) ==
    LET run == AnalysisPrefix(<<>>, <<>>, campus_data, objs, data)
    IN AnalysisSuffix(run.building_agents,
                      [r \in DOMAIN run.tasks |->
                          [run.tasks[r] EXCEPT !.status = "done",
                                               !.state = PipelineResult(@),
                                               !.node = "END"]])

\* the baseline and simulated campus states of the what-if of the scenario
\* with the default budget, run alone on the observations of source
WhatIfAlone(source, scenario) ==
    LET data == [rooms |-> SourceOrder, parameters |-> "absent"]
        objs == ApplyScenario(source, data, scenario)
    IN [simulated |-> AnalysisAlone(objs, data), baseline |-> AnalysisAlone(objs, data)]

C36_RegisteredRoomsTracked ==
    \A b \in DOMAIN building_agents :
        building_agents[b].room_agents \subseteq DOMAIN room_agents

\* the rooms of request p's pipelines whose building has a configuration
RoomsOfConfiguredBuildings(p) ==
    {r \in DOMAIN tasks[p] : campus_data.rooms[r].building_id \in campus_data.buildings}

Defaulted(p) == {r \in DOMAIN tasks[p] : tasks[p][r].status = "defaulted"}

\* C38: a failure of the reasoning service in the building or campus
\* recommendations is not replaced by a default: the run raises and returns
\* no campus state, also when every room pipeline ended well. Every failure
\* either raised the run or was caught in one room pipeline, which then
\* holds its pre-pipeline state; a run that returned a campus state met no
\* failure outside its room pipelines.
C38_AggregationFailureRaises ==
    \A p \in Procs :
        /\ pc[p] = "raised" => result[p] = Unset
        /\ pc[p] = "done" => result[p] # Unset
        /\ \A r \in Defaulted(p) : tasks[p][r].state = tasks[p][r].initial
        /\ MaxFailures - oracle_failures =
               Cardinality(Defaulted(p)) + (IF pc[p] = "raised" THEN 1 ELSE 0)

\* a run raised after every one of its room pipelines, of two rooms or more,
\* had run to its end
C38_Witness ==
    \E p \in Procs :
        /\ pc[p] = "raised"
        /\ Cardinality(DOMAIN tasks[p]) >= 2
        /\ \A r \in DOMAIN tasks[p] : tasks[p][r].status = "done"

\* the calls of the reasoning service in a task's history
OracleCalls(task) == {i \in DOMAIN task.log : task.log[i].oracle}

\* C39: a room pipeline calls the reasoning service at most once in a stage
\* and never again after a call failed. Its history is a prefix of the four
\* stages in order, each run once; a failed call is the last entry, and the
\* task then holds its pre-pipeline state. A pipeline that ran to its end
\* made 2 calls at depth low, in InferResources and PredictDemand, and 4
\* calls at depth medium; a low-depth pipeline falls back too when the
\* service is unavailable.
C39_OneOracleCallPerStage ==
    \A p \in Procs :
        pc[p] \in {"analysis", "done", "raised"} =>
            \A r \in DOMAIN tasks[p] :
                LET task == tasks[p][r]
                    n == Len(task.log)
                IN /\ n <= Len(StageOrder) - 1
                   /\ \A i \in 1..n : task.log[i].node = StageOrder[i]
                   /\ \A i \in 1..n :
                         task.log[i].failed =>
                             /\ i = n
                             /\ task.log[i].oracle
                             /\ task.status = "defaulted"
                             /\ task.state = task.initial
                   /\ task.status = "defaulted" => (n >= 1 /\ task.log[n].failed)
                   /\ task.status = "done" =>
                         /\ n = Len(StageOrder) - 1
                         /\ RequestedDepth(p) = "low" => OracleCalls(task) = {2, 3}
                         /\ RequestedDepth(p) = "medium" => OracleCalls(task) = {1, 2, 3, 4}

\* a low-depth pipeline ran Observe without the reasoning service, met the
\* failure in InferResources and ended on its pre-pipeline state, beside a
\* low-depth pipeline that ran to its end
C39_Witness ==
    \E p \in Procs :
        /\ pc[p] = "done"
        /\ RequestedDepth(p) = "low"
        /\ \E r \in DOMAIN tasks[p] :
              /\ tasks[p][r].status = "defaulted"
              /\ Len(tasks[p][r].log) = 2
              /\ ~tasks[p][r].log[1].oracle
              /\ tasks[p][r].log[2].failed
        /\ \E r \in DOMAIN tasks[p] : tasks[p][r].status = "done"

\* the request and the reply of each of the four stages, once, in stage order
EachExchangeOnce ==
    Exchange("analyze_observations") \o Exchange("infer_resources")
        \o Exchange("predict_demand") \o Exchange("generate_recommendations")

\* C40: at the end of a pipeline run at depth medium the accumulated
\* conversation context holds the request and the reply of each stage once,
\* in stage order, 8 entries in all: merging a stage's state into the state
\* before it repeats no exchange.
C40_ConversationHoldsEachExchangeOnce ==
    \A p \in Procs :
        \A r \in DOMAIN tasks[p] :
            (tasks[p][r].status = "done" /\ room_agents[r].budget_level = "medium")
                => tasks[p][r].state.messages = EachExchangeOnce


====
